---- MODULE Spec2Model ----
(***************************************************************************)
(* B-em floppy subsystem: the WD1770 controller (wd1770.c), the drive      *)
(* dispatch layer (disc.c) and the simple-disk-format image backend        *)
(* (sdf.c), modelled as one state machine.  Every C function is an         *)
(* operator from a machine record (all globals of the three files) to the  *)
(* machine record after the call, so that a handler and everything it      *)
(* calls is one step.                                                      *)
(***************************************************************************)
EXTENDS Integers, Sequences, FiniteSets, TLC

VARIABLES
    WD1770,         \* board profile selected for the run (model.h)
    wd1770,         \* the controller struct of wd1770.c
    nmi, fdc_time, motorspin, motoron,
    curdrive, disc_notfound, writeprot, drives,
    geometry, sdf_fp, current_track,
    state, count, sdf_time, sdf_drive, sdf_side, sdf_track, sdf_sector,
    disk,           \* contents of the host image files
    getc_order,     \* the build's evaluation order of getc calls in one expression
    crashed,        \* the process dereferenced a null pointer
    ev,             \* what the last step did: operation, inputs, trace of calls
    obs,            \* running observations of the operation in flight
    pc              \* where the host program driving the subsystem stands

vars == << WD1770, wd1770, nmi, fdc_time, motorspin, motoron,
           curdrive, disc_notfound, writeprot, drives,
           geometry, sdf_fp, current_track,
           state, count, sdf_time, sdf_drive, sdf_side, sdf_track, sdf_sector,
           disk, getc_order, crashed, ev, obs, pc >>

(***************************************************************************)
(* Bounds of the exploration (not program constants).                      *)
(***************************************************************************)
\* free host operations (register writes, loads, closes, aborts) that follow
\* the set-up of a behaviour of Spec
MaxOps == 2
\* free disc_poll ticks that follow the set-up of a behaviour of Spec
MaxPolls == 1

(***************************************************************************)
(* Program constants.                                                      *)
(***************************************************************************)
NUM_DRIVES == 2
NOTFOUND_COUNT == 500
DISC_NOTFOUND_COUNT == 10000
SPINDOWN_COUNT == 45000
POLL_DIVIDER == 16
WRITE_DELAY == 20
FINISH_TIME == 200

Drives == 0 .. (NUM_DRIVES - 1)

(***************************************************************************)
(* uint8_t arithmetic and single-bit masks.                                *)
(***************************************************************************)
U8(x) == x % 256

\* x & mask # 0, for a one-bit mask
Has(x, mask) == (x \div mask) % 2 = 1

\* x | mask, for a one-bit mask
BitOr(x, mask) == IF Has(x, mask) THEN x ELSE x + mask

\* x & ~mask, for a one-bit mask
BitClr(x, mask) == IF Has(x, mask) THEN x - mask ELSE x

Max(a, b) == IF a >= b THEN a ELSE b

(***************************************************************************)
(* sdf.c: the geometry catalog.  One sequence holds the three tables in    *)
(* source order; an index into it stands for the geometry_t pointer, and   *)
(* 0 for NULL.                                                             *)
(***************************************************************************)
Geo(n, s, d, sz, t, spt, ss) ==
    [name |-> n, sides |-> s, density |-> d, size_in_sectors |-> sz,
     tracks |-> t, sectors_per_track |-> spt, sector_size |-> ss]

adfs_new_formats == <<
    Geo("Acorn ADFS F", "SIDES_INTERLEAVED", "DENS_QUAD",   1600, 80, 10, 1024),
    Geo("Acorn ADFS D", "SIDES_INTERLEAVED", "DENS_DOUBLE",  800, 80,  5, 1024) >>

adfs_old_formats == <<
    Geo("Acorn ADFS L", "SIDES_INTERLEAVED", "DENS_DOUBLE", 2560, 80, 16, 256),
    Geo("Acorn ADFS M", "SIDES_SINGLE",      "DENS_DOUBLE", 1280, 80, 16, 256),
    Geo("Acorn ADFS S", "SIDES_SINGLE",      "DENS_DOUBLE",  640, 40, 16, 256) >>

dfs_formats == <<
    Geo("Watford/Opus DDFS", "SIDES_INTERLEAVED", "DENS_DOUBLE", 1440, 80, 18, 256),
    Geo("Watford/Opus DDFS", "SIDES_SEQUENTIAL",  "DENS_DOUBLE", 1440, 80, 18, 256),
    Geo("Watford/Opus DDFS", "SIDES_SINGLE",      "DENS_DOUBLE", 1440, 80, 18, 256),
    Geo("Watford/Opus DDFS", "SIDES_INTERLEAVED", "DENS_DOUBLE",  720, 40, 18, 256),
    Geo("Watford/Opus DDFS", "SIDES_SEQUENTIAL",  "DENS_DOUBLE",  720, 40, 18, 256),
    Geo("Watford/Opus DDFS", "SIDES_SINGLE",      "DENS_DOUBLE",  720, 40, 18, 256),
    Geo("Solidisk DDFS",     "SIDES_INTERLEAVED", "DENS_DOUBLE", 1280, 80, 16, 256),
    Geo("Solidisk DDFS",     "SIDES_SEQUENTIAL",  "DENS_DOUBLE", 1280, 80, 16, 256),
    Geo("Solidisk DDFS",     "SIDES_SINGLE",      "DENS_DOUBLE", 1280, 80, 16, 256),
    Geo("Solidisk DDFS",     "SIDES_INTERLEAVED", "DENS_DOUBLE",  640, 40, 16, 256),
    Geo("Solidisk DDFS",     "SIDES_SEQUENTIAL",  "DENS_DOUBLE",  640, 40, 16, 256),
    Geo("Solidisk DDFS",     "SIDES_SINGLE",      "DENS_DOUBLE",  640, 40, 16, 256),
    Geo("Acorn DFS",         "SIDES_INTERLEAVED", "DENS_SINGLE",  800, 80, 10, 256),
    Geo("Acorn DFS",         "SIDES_SEQUENTIAL",  "DENS_SINGLE",  800, 80, 10, 256),
    Geo("Acorn DFS",         "SIDES_SINGLE",      "DENS_SINGLE",  800, 80, 10, 256),
    Geo("Acorn DFS",         "SIDES_INTERLEAVED", "DENS_SINGLE",  400, 40, 10, 256),
    Geo("Acorn DFS",         "SIDES_SEQUENTIAL",  "DENS_SINGLE",  400, 40, 10, 256),
    Geo("Acorn DFS",         "SIDES_SINGLE",      "DENS_SINGLE",  400, 40, 10, 256) >>

Catalog == adfs_new_formats \o adfs_old_formats \o dfs_formats

GeoIds == 1 .. Len(Catalog)

\* index of the first entry of each table in Catalog
AdfsNewBase == 0
AdfsOldBase == Len(adfs_new_formats)
DfsBase == Len(adfs_new_formats) + Len(adfs_old_formats)

(***************************************************************************)
(* Host files.  A file is [size, data]: data maps the offsets that hold a  *)
(* non-zero or written byte to that byte, every other offset below size    *)
(* reads 0.  A FILE* is [img, pos, rw]: the file it is open on, the stream  *)
(* position and whether it was opened "rb+"; NULL is the one with img 0.   *)
(***************************************************************************)
EOF == -1

NullFile == [img |-> 0, pos |-> 0, rw |-> FALSE]

IsNull(fp) == fp.img = 0

ByteAt(f, off) ==
    IF off \in DOMAIN f.data THEN f.data[off]
    ELSE IF off >= 0 /\ off < f.size THEN 0
    ELSE EOF

\* the file after putc(c) at offset off
PutAt(f, off, c) ==
    [size |-> Max(f.size, off + 1),
     data |-> [o \in (DOMAIN f.data) \cup {off} |->
                  IF o = off THEN U8(c) ELSE f.data[o]]]

\* the stream position after one getc at pos
AfterGetc(f, pos) == IF ByteAt(f, pos) = EOF THEN pos ELSE pos + 1

Nick == << 78, 105, 99, 107 >>
Hugo == << 72, 117, 103, 111 >>

TagAt(off, id) == [o \in off .. (off + Len(id) - 1) |-> id[o - off + 1]]

(***************************************************************************)
(* sdf.c: check_id and the three detectors.  Each returns [geo, pos]: the  *)
(* catalog index found (0 for NULL) and the stream position it leaves.     *)
(* The sector-count expressions call getc several times in one expression, *)
(* whose order C leaves to the build: order is "lr" or "rl".               *)
(***************************************************************************)
RECURSIVE CheckIdFrom(_, _, _, _)
CheckIdFrom(f, pos, id, i) ==
    IF i > Len(id) THEN [ok |-> TRUE, pos |-> pos]
    ELSE IF id[i] # ByteAt(f, pos) THEN [ok |-> FALSE, pos |-> AfterGetc(f, pos)]
    ELSE CheckIdFrom(f, AfterGetc(f, pos), id, i + 1)

check_id(f, posn, id) == CheckIdFrom(f, posn, id, 1)

\* first index i in lo..hi with P(i), else 0
RECURSIVE FirstMatch(_, _, _)
FirstMatch(P(_), lo, hi) ==
    IF lo > hi THEN 0
    ELSE IF P(lo) THEN lo
    ELSE FirstMatch(P, lo + 1, hi)

try_adfs_new(f) ==
    LET a == check_id(f, 1025, Nick)
        b == check_id(f, 2049, Nick)
        SizeIs(i) == f.size = adfs_new_formats[i].size_in_sectors
                              * adfs_new_formats[i].sector_size
        hit == FirstMatch(SizeIs, 1, Len(adfs_new_formats))
    IN  IF a.ok \/ b.ok
        THEN [geo |-> IF hit = 0 THEN 0 ELSE AdfsNewBase + hit, pos |-> f.size]
        ELSE [geo |-> 0, pos |-> b.pos]

\* the bytes three successive getc calls return from pos, in call order
Getc3(f, pos) ==
    LET p1 == AfterGetc(f, pos)
        p2 == AfterGetc(f, p1)
    IN  << ByteAt(f, pos), ByteAt(f, p1), ByteAt(f, p2) >>

Getc2(f, pos) == << ByteAt(f, pos), ByteAt(f, AfterGetc(f, pos)) >>

\* getc(fp) | (getc(fp) << 8) | (getc(fp) << 16), as uint32_t; an EOF (-1)
\* among the operands makes it 0xFFFFFFFF, written -1 here
Sects24(f, pos, order) ==
    LET g == Getc3(f, pos)
        lo  == IF order = "lr" THEN g[1] ELSE g[3]
        mid == g[2]
        hi  == IF order = "lr" THEN g[3] ELSE g[1]
    IN  IF lo = EOF \/ mid = EOF \/ hi = EOF THEN -1
        ELSE lo + mid * 256 + hi * 65536

try_adfs_old(f, order) ==
    LET a == check_id(f, 513, Hugo)
        b == check_id(f, 1787, Hugo)
        sects == Sects24(f, 252, order)
        SectsIs(i) == sects = adfs_old_formats[i].size_in_sectors
        hit == FirstMatch(SectsIs, 1, Len(adfs_old_formats))
    IN  IF a.ok /\ b.ok
        THEN [geo |-> IF hit = 0 THEN 0 ELSE AdfsOldBase + hit,
              pos |-> AfterGetc(f, AfterGetc(f, AfterGetc(f, 252)))]
        ELSE [geo |-> 0, pos |-> IF a.ok THEN b.pos ELSE a.pos]

\* ((getc(fp) & 3) << 8) + getc(fp), as uint32_t; 0xFFFFFFFF (EOF added to
\* 0) is written -1 here
Sects10(f, pos, order) ==
    LET g == Getc2(f, pos)
        hi == IF order = "lr" THEN g[1] ELSE g[2]
        lo == IF order = "lr" THEN g[2] ELSE g[1]
    IN  (hi % 4) * 256 + lo

\* where the second side's catalogue sector starts (try_dfs, side2_off)
Side2Off(geo) ==
    LET track_bytes == geo.sectors_per_track * geo.sector_size
    IN  IF geo.sides = "SIDES_SEQUENTIAL" THEN geo.tracks * track_bytes
        ELSE track_bytes

try_dfs(f, order) ==
    LET sects0 == Sects10(f, 262, order)
        Match(i) ==
            /\ sects0 = dfs_formats[i].size_in_sectors
            /\ \/ dfs_formats[i].sides = "SIDES_SINGLE"
               \/ Sects10(f, Side2Off(dfs_formats[i]) + 262, order) = sects0
        hit == FirstMatch(Match, 1, Len(dfs_formats))
    IN  [geo |-> IF hit = 0 THEN 0 ELSE DfsBase + hit,
         pos |-> IF hit = 0 \/ dfs_formats[hit].sides = "SIDES_SINGLE"
                 THEN AfterGetc(f, AfterGetc(f, 262))
                 ELSE AfterGetc(f, AfterGetc(f, Side2Off(dfs_formats[hit]) + 262))]

\* sdf_load's detection cascade
Detect(f, order) ==
    LET n == try_adfs_new(f)
        o == try_adfs_old(f, order)
        d == try_dfs(f, order)
    IN  IF n.geo # 0 THEN n ELSE IF o.geo # 0 THEN o ELSE d

(***************************************************************************)
(* The machine record: every global of the three files, plus log, the      *)
(* trace of the calls the current handler has made so far.                 *)
(***************************************************************************)
Machine ==
    [board |-> WD1770, wd |-> wd1770, nmi |-> nmi, fdc_time |-> fdc_time,
     motorspin |-> motorspin, motoron |-> motoron, curdrive |-> curdrive,
     disc_notfound |-> disc_notfound, writeprot |-> writeprot,
     drives |-> drives, geometry |-> geometry, sdf_fp |-> sdf_fp,
     current_track |-> current_track, state |-> state, count |-> count,
     sdf_time |-> sdf_time, sdf_drive |-> sdf_drive, sdf_side |-> sdf_side,
     sdf_track |-> sdf_track, sdf_sector |-> sdf_sector, disk |-> disk,
     order |-> getc_order, crashed |-> crashed, log |-> << >>]

\* one entry of the trace: a call, a callback or a file access, with its argument
Event(e, a) == [e |-> e, a |-> a]

Log(m, e, a) == [m EXCEPT !.log = Append(@, Event(e, a))]

Crash(m) == [m EXCEPT !.crashed = TRUE]

(***************************************************************************)
(* wd1770.c: motor control and the completion callbacks the backend calls  *)
(* through the fdc_* pointers installed by wd1770_reset.                   *)
(***************************************************************************)
IrqBoard(m) == m.board \in {"WD1770_ACORN", "WD1770_MASTER"}

wd1770_reset(m) ==
    [m EXCEPT !.nmi = 0, !.wd.status = 0, !.fdc_time = 0,
              !.motorspin = SPINDOWN_COUNT]

\* a spin-up that leaves the spin-down countdown running
wd1770_spinup_Counting(m) ==
    [m EXCEPT !.wd.status = BitOr(@, 128), !.motoron = 1]

wd1770_spinup(m) ==
    [m EXCEPT !.wd.status = BitOr(@, 128), !.motoron = 1, !.motorspin = 0]

wd1770_spindown(m) ==
    [m EXCEPT !.wd.status = BitClr(@, 128), !.motoron = 0]

wd1770_setspindown(m) == [m EXCEPT !.motorspin = SPINDOWN_COUNT]

\* #define track0 (wd1770.curtrack ? 4 : 0)
track0(m) == IF m.wd.curtrack # 0 THEN 4 ELSE 0

\* the end-of-command interrupt, raised on the Acorn and Master boards only
NmiOr1(m) == IF IrqBoard(m) THEN [m EXCEPT !.nmi = BitOr(@, 1)] ELSE m

wd1770_data(m, dat) ==
    LET l == Log(m, "fdc_data", U8(dat))
    IN  [l EXCEPT !.wd.data = U8(dat), !.wd.status = BitOr(@, 2),
                  !.nmi = BitOr(@, 2)]

wd1770_finishread(m) ==
    [Log(m, "fdc_finishread", 0) EXCEPT !.fdc_time = FINISH_TIME]

\* the error callbacks: nmi by board, the status pattern, motor off
ErrorStatus(m, name, status) ==
    wd1770_spindown([Log(m, name, 0) EXCEPT
        !.fdc_time = 0,
        !.nmi = IF IrqBoard(m) THEN 1 ELSE 0,
        !.wd.status = status])

wd1770_notfound(m) == ErrorStatus(m, "fdc_notfound", 144)

wd1770_datacrcerror(m) == ErrorStatus(m, "fdc_datacrcerror", 136)

wd1770_headercrcerror(m) == ErrorStatus(m, "fdc_headercrcerror", 152)

\* variant: write-protect reported through the not-found callback
wd1770_writeprotect_AsNotFound(m) == wd1770_notfound(m)

wd1770_writeprotect(m) == ErrorStatus(m, "fdc_writeprotect", 192)

\* wd1770_getdata returns -1 or the data byte; GetdataValue is the return
\* value and wd1770_getdata the machine after the call
\* variant: the data register's byte is returned whether or not it is new
GetdataValue_Stale(m) == m.wd.data

GetdataValue(m) == IF m.wd.written = 0 THEN -1 ELSE m.wd.data

wd1770_getdata(m, last) ==
    IF m.wd.written = 0 THEN Log(m, "fdc_getdata", -1)
    ELSE LET l == Log(m, "fdc_getdata", m.wd.data)
             r == IF ~last
                  THEN [l EXCEPT !.nmi = BitOr(@, 2), !.wd.status = BitOr(@, 2)]
                  ELSE l
         IN  [r EXCEPT !.wd.written = 0]

wd1770_callback(m) ==
    LET c  == m.wd.command \div 16
        l  == [Log(m, "fdc_callback", c) EXCEPT !.fdc_time = 0]
        t  == IF c \in {0, 1, 3, 5, 7}
              THEN [l EXCEPT !.wd.track = U8(l.wd.curtrack)] ELSE l
        Done(x, status) ==
            NmiOr1(wd1770_setspindown([x EXCEPT !.wd.status = status]))
    IN  IF c \in {0, 1, 2, 3, 4, 5, 6, 7} THEN Done(t, 128 + track0(t))
        ELSE IF c \in {8, 10, 15} THEN Done(l, 128)
        ELSE IF c = 12
        THEN LET d == Done(l, 128) IN [d EXCEPT !.wd.sector = d.wd.track]
        ELSE l

(***************************************************************************)
(* stdio on the stream of a drive.  A NULL stream crashes the process.     *)
(***************************************************************************)
\* the value getc(sdf_fp[d]) returns
GetcValue(m, d) == ByteAt(m.disk[m.sdf_fp[d].img], m.sdf_fp[d].pos)

\* the machine after getc(sdf_fp[d])
\* variant: getc returns the byte and leaves the stream position where it was
Getc_NoAdvance(m, d) == m

Getc(m, d) ==
    [m EXCEPT !.sdf_fp[d].pos = AfterGetc(m.disk[m.sdf_fp[d].img], @)]

\* variant: putc stores the byte and leaves the stream position where it was
Putc_NoAdvance(m, d, c) ==
    IF IsNull(m.sdf_fp[d]) THEN Crash(m)
    ELSE IF ~m.sdf_fp[d].rw THEN Log(m, "putc_failed", m.sdf_fp[d].pos)
    ELSE LET fp == m.sdf_fp[d]
         IN  Log([m EXCEPT !.disk[fp.img] = PutAt(@, fp.pos, c)],
                 "putc", fp.pos)

\* the machine after putc(c, sdf_fp[d]); a stream opened "rb" writes nothing
Putc(m, d, c) ==
    IF IsNull(m.sdf_fp[d]) THEN Crash(m)
    ELSE IF ~m.sdf_fp[d].rw THEN Log(m, "putc_failed", m.sdf_fp[d].pos)
    ELSE LET fp == m.sdf_fp[d]
             w  == [m EXCEPT !.disk[fp.img] = PutAt(@, fp.pos, c),
                             !.sdf_fp[d].pos = fp.pos + 1]
         IN  Log(w, "putc", fp.pos)

\* the machine after fseek(sdf_fp[d], offset, SEEK_SET)
Fseek(m, d, offset) ==
    IF IsNull(m.sdf_fp[d]) THEN Crash(m)
    ELSE Log([m EXCEPT !.sdf_fp[d].pos = offset], "fseek", offset)

(***************************************************************************)
(* sdf.c: the image backend.                                               *)
(***************************************************************************)
sdf_close(m, drive) ==
    IF drive < NUM_DRIVES
    THEN [m EXCEPT !.geometry[drive] = 0, !.sdf_fp[drive] = NullFile]
    ELSE m

sdf_seek(m, drive, track) ==
    IF drive < NUM_DRIVES
    THEN [m EXCEPT !.current_track[drive] = U8(track)]
    ELSE m

\* variant: side 0 of an interleaved geometry is not doubled
SeekOffset_Side0Plain(geo, sector, track, side) ==
    LET track_bytes == geo.sectors_per_track * geo.sector_size
        base == IF side = 0 THEN track * track_bytes
                ELSE IF geo.sides = "SIDES_SEQUENTIAL"
                     THEN (track + geo.tracks) * track_bytes
                     ELSE (track * 2 + 1) * track_bytes
    IN  base + sector * geo.sector_size

\* the byte offset io_seek computes (uint32_t; with uint8_t arguments and
\* the catalog's geometries it stays below 2^32)
SeekOffset(geo, sector, track, side) ==
    LET track_bytes == geo.sectors_per_track * geo.sector_size
        base == IF side = 0
                THEN IF geo.sides = "SIDES_INTERLEAVED"
                     THEN track * track_bytes * 2
                     ELSE track * track_bytes
                ELSE IF geo.sides = "SIDES_SEQUENTIAL"
                     THEN (track + geo.tracks) * track_bytes
                     ELSE (track * 2 + 1) * track_bytes
    IN  base + sector * geo.sector_size

io_seek(m, geo, drive, sector, track, side) ==
    Fseek(m, U8(drive), SeekOffset(geo, U8(sector), U8(track), U8(side)))

\* if ((!density && geo->density == DENS_SINGLE) || (density && geo->density == DENS_DOUBLE))
DensityOk(geo, density) ==
    \/ density = 0 /\ geo.density = "DENS_SINGLE"
    \/ density # 0 /\ geo.density = "DENS_DOUBLE"

\* the guards the four transfer operations share, below state == ST_IDLE
TrackGuards(m, drive, track, density) ==
    /\ drive < NUM_DRIVES
    /\ m.geometry[drive] # 0
    /\ DensityOk(Catalog[m.geometry[drive]], density)
    /\ track = m.current_track[drive]
    /\ track >= 0
    /\ track < Catalog[m.geometry[drive]].tracks

\* variant: the side is not checked
SideGuard_AnySide(m, drive, side) == TRUE

SideGuard(m, drive, side) ==
    side = 0 \/ Catalog[m.geometry[drive]].sides # "SIDES_SINGLE"

SectorGuard(m, drive, sector) ==
    sector >= 0 /\ sector < Catalog[m.geometry[drive]].sectors_per_track

\* variant: the countdown is one step short
NotFound_Short(m) ==
    [m EXCEPT !.count = NOTFOUND_COUNT - 1, !.state = "ST_NOTFOUND"]

NotFound(m) == [m EXCEPT !.count = NOTFOUND_COUNT, !.state = "ST_NOTFOUND"]

sdf_readsector(m, drive, sector, track, side, density) ==
    IF m.state # "ST_IDLE" THEN m
    ELSE IF /\ TrackGuards(m, drive, track, density)
            /\ SectorGuard(m, drive, sector)
            /\ SideGuard(m, drive, side)
    THEN LET geo == Catalog[m.geometry[drive]]
             k   == io_seek(m, geo, drive, sector, track, side)
         IN  [k EXCEPT !.count = geo.sector_size, !.sdf_drive = U8(drive),
                       !.state = "ST_READSECTOR"]
    ELSE NotFound(m)

sdf_writesector(m, drive, sector, track, side, density) ==
    IF m.state # "ST_IDLE" THEN m
    ELSE IF /\ TrackGuards(m, drive, track, density)
            /\ SectorGuard(m, drive, sector)
            /\ SideGuard(m, drive, side)
    THEN LET geo == Catalog[m.geometry[drive]]
             k   == io_seek(m, geo, drive, sector, track, side)
         IN  [k EXCEPT !.count = geo.sector_size, !.sdf_drive = U8(drive),
                       !.sdf_side = U8(side), !.sdf_track = U8(track),
                       !.sdf_sector = U8(sector), !.sdf_time = 0 - WRITE_DELAY,
                       !.state = "ST_WRITESECTOR"]
    ELSE NotFound(m)

sdf_readaddress(m, drive, track, side, density) ==
    IF m.state # "ST_IDLE" THEN m
    ELSE IF /\ TrackGuards(m, drive, track, density)
            /\ SideGuard(m, drive, side)
    THEN [m EXCEPT !.sdf_drive = U8(drive), !.sdf_side = U8(side),
                   !.sdf_track = U8(track), !.state = "ST_READ_ADDR0"]
    ELSE NotFound(m)

\* the accepting branch sets ST_FORMAT and does not return: control falls
\* through to the not-found assignments below it
sdf_format(m, drive, track, side, density) ==
    IF m.state # "ST_IDLE" THEN m
    ELSE IF /\ TrackGuards(m, drive, track, density)
            /\ SideGuard(m, drive, side)
    THEN LET geo == Catalog[m.geometry[drive]]
             k   == io_seek(m, geo, drive, 0, track, side)
         IN  NotFound([k EXCEPT !.sdf_drive = U8(drive), !.sdf_side = U8(side),
                                !.sdf_track = U8(track), !.sdf_sector = 0,
                                !.state = "ST_FORMAT"])
    ELSE NotFound(m)

sdf_abort(m) == [m EXCEPT !.state = "ST_IDLE"]

\* --count on the uint16_t counter
Dec16(c) == (c - 1) % 65536

\* the body of sdf_poll's switch, run on the polls that pass the divider
sdf_poll_state(m) ==
    LET d == m.sdf_drive IN
    CASE m.state = "ST_IDLE" -> m
      [] m.state = "ST_NOTFOUND" ->
            LET c == [m EXCEPT !.count = Dec16(@)]
            IN  IF c.count = 0
                THEN [wd1770_notfound(c) EXCEPT !.state = "ST_IDLE"]
                ELSE c
      [] m.state = "ST_READSECTOR" ->
            IF IsNull(m.sdf_fp[d]) THEN Crash(m)
            ELSE LET r == wd1770_data(Getc(m, d), GetcValue(m, d))
                     c == [r EXCEPT !.count = Dec16(@)]
                 IN  IF c.count = 0
                     THEN [wd1770_finishread(c) EXCEPT !.state = "ST_IDLE"]
                     ELSE c
      [] m.state = "ST_WRITESECTOR" ->
            IF m.writeprot[d] # 0
            THEN [wd1770_writeprotect(m) EXCEPT !.state = "ST_IDLE"]
            ELSE LET c == [m EXCEPT !.count = Dec16(@)]
                     v == GetdataValue(c)
                     g == wd1770_getdata(c, c.count = 0)
                 IN  IF v = -1
                     THEN [Log(g, "underrun", 0) EXCEPT !.count = (@ + 1) % 65536]
                     ELSE LET w == Putc(g, d, v)
                          IN  IF w.count = 0 /\ ~w.crashed
                              THEN [wd1770_finishread(w) EXCEPT !.state = "ST_IDLE"]
                              ELSE w
      [] m.state = "ST_READ_ADDR0" ->
            [wd1770_data(m, m.sdf_track) EXCEPT !.state = "ST_READ_ADDR1"]
      [] m.state = "ST_READ_ADDR1" ->
            [wd1770_data(m, m.sdf_side) EXCEPT !.state = "ST_READ_ADDR2"]
      [] m.state = "ST_READ_ADDR2" ->
            [wd1770_data(m, m.sdf_sector) EXCEPT !.state = "ST_READ_ADDR3"]
      [] m.state = "ST_READ_ADDR3" ->
            [wd1770_data(m, 1) EXCEPT !.state = "ST_READ_ADDR4"]
      [] m.state = "ST_READ_ADDR4" ->
            [wd1770_data(m, 0) EXCEPT !.state = "ST_READ_ADDR5"]
      [] m.state = "ST_READ_ADDR5" ->
            [wd1770_data(m, 0) EXCEPT !.state = "ST_READ_ADDR6"]
      [] m.state = "ST_READ_ADDR6" ->
            \* no assignment to state: the backend stays in ST_READ_ADDR6
            LET f == wd1770_finishread(m)
                n == [f EXCEPT !.sdf_sector = U8(@ + 1)]
            IN  IF n.geometry[d] = 0 THEN Crash(n)
                ELSE IF n.sdf_sector = Catalog[n.geometry[d]].sectors_per_track
                THEN [n EXCEPT !.sdf_sector = 0]
                ELSE n
      [] m.state = "ST_FORMAT" ->
            IF m.writeprot[d] # 0
            THEN [wd1770_writeprotect(m) EXCEPT !.state = "ST_IDLE"]
            ELSE LET c == [m EXCEPT !.count = Dec16(@)]
                     n == [c EXCEPT !.sdf_sector = U8(@ + 1)]
                 IN  IF c.count # 0 THEN Putc(c, d, 0)
                     ELSE IF n.geometry[d] = 0 THEN Crash(n)
                     ELSE IF n.sdf_sector >= Catalog[n.geometry[d]].sectors_per_track
                     THEN n
                     ELSE Putc(n, d, 0)

\* if (++sdf_time <= 16) return; sdf_time = 0; switch (state) ...
sdf_poll(m) ==
    IF m.sdf_time + 1 <= POLL_DIVIDER
    THEN [m EXCEPT !.sdf_time = @ + 1]
    ELSE sdf_poll_state(Log([m EXCEPT !.sdf_time = 0], "tick", 0))

\* access is what fopen can do with the host file: "rw", "ro" or "none"
sdf_load(m, drive, img, access) ==
    LET w0  == [m EXCEPT !.writeprot[drive] = 0]
        w   == IF access = "ro" THEN [w0 EXCEPT !.writeprot[drive] = 1] ELSE w0
        det == Detect(m.disk[img], m.order)
    IN  IF access = "none" THEN Log(w0, "open_failed", img)
        ELSE IF det.geo = 0 THEN Log(w, "no_geometry", img)
        ELSE Log([w EXCEPT
                 !.sdf_fp[drive] = [img |-> img, pos |-> det.pos,
                                    rw |-> (access = "rw")],
                 !.geometry[drive] = det.geo,
                 !.drives[drive] = "sdf"], "loaded", det.geo)

(***************************************************************************)
(* disc.c: the dispatch layer.  drives[d] is "none" while the operation    *)
(* pointers of drive d are unset and "sdf" once sdf_load has set them.     *)
(***************************************************************************)
disc_load(m, drive, img, access) == sdf_load(m, drive, img, access)

\* the close pointer consulted is that of drive 0
disc_close(m, drive) ==
    IF m.drives[0] = "sdf" THEN sdf_close(Log(m, "close", drive), drive) ELSE m

\* ddnoise_seek (not part of these files) times the head movement and
\* schedules the controller's completion callback
ddnoise_seek(m) == [m EXCEPT !.fdc_time = FINISH_TIME]

disc_seek(m, drive, track) ==
    LET l == Log(m, "disc_seek", track)
        s == IF l.drives[drive] = "sdf" THEN sdf_seek(l, drive, track) ELSE l
    IN  ddnoise_seek(s)

\* variant: the countdown is one poll short
StartDiscNotFound_Short(m) ==
    [m EXCEPT !.disc_notfound = DISC_NOTFOUND_COUNT - 1]

StartDiscNotFound(m) == [m EXCEPT !.disc_notfound = DISC_NOTFOUND_COUNT]

disc_readsector(m, drive, sector, track, side, density) ==
    LET l == Log(m, "disc_readsector", drive)
    IN  IF l.drives[drive] = "sdf"
        THEN sdf_readsector(l, drive, sector, track, side, density)
        ELSE StartDiscNotFound(l)

disc_writesector(m, drive, sector, track, side, density) ==
    LET l == Log(m, "disc_writesector", drive)
    IN  IF l.drives[drive] = "sdf"
        THEN sdf_writesector(l, drive, sector, track, side, density)
        ELSE StartDiscNotFound(l)

disc_readaddress(m, drive, track, side, density) ==
    LET l == Log(m, "disc_readaddress", drive)
    IN  IF l.drives[drive] = "sdf"
        THEN sdf_readaddress(l, drive, track, side, density)
        ELSE StartDiscNotFound(l)

disc_format(m, drive, track, side, density) ==
    LET l == Log(m, "disc_format", drive)
    IN  IF l.drives[drive] = "sdf"
        THEN sdf_format(l, drive, track, side, density)
        ELSE StartDiscNotFound(l)

disc_abort(m, drive) ==
    LET l == Log(m, "disc_abort", drive)
    IN  IF l.drives[drive] = "sdf" THEN sdf_abort(l) ELSE StartDiscNotFound(l)

disc_poll(m) ==
    LET p == IF m.drives[m.curdrive] = "sdf" THEN sdf_poll(m) ELSE m
    IN  IF p.disc_notfound = 0 \/ p.crashed THEN p
        ELSE LET n == [p EXCEPT !.disc_notfound = @ - 1]
             IN  IF n.disc_notfound = 0
                 THEN wd1770_notfound(Log(n, "disc_notfound_expired", 0))
                 ELSE n

\* n calls of disc_poll in a row, as in a time slice of the main loop in
\* which the CPU touches no controller register
RECURSIVE disc_polls(_, _)
disc_polls(m, n) == IF n = 0 THEN m ELSE disc_polls(disc_poll(m), n - 1)

(***************************************************************************)
(* wd1770.c: register writes.                                              *)
(***************************************************************************)
\* wd1770.status = 0x80 | 0x21 | track0
SeekStatus(m) == [m EXCEPT !.wd.status = 128 + 33 + track0(m)]

BusyStatus(m) == [m EXCEPT !.wd.status = 128 + 1]

cmd_restore(m) ==
    disc_seek(SeekStatus([m EXCEPT !.wd.curtrack = 0]), m.curdrive, 0)

cmd_seek(m) ==
    LET c == SeekStatus([m EXCEPT !.wd.curtrack = m.wd.data])
    IN  disc_seek(c, c.curdrive, c.wd.curtrack)

cmd_step(m) ==
    LET s == SeekStatus(m)
        t == s.wd.curtrack + s.wd.stepdir
        c == [s EXCEPT !.wd.curtrack = IF t < 0 THEN 0 ELSE t]
    IN  disc_seek(c, c.curdrive, c.wd.curtrack)

cmd_step_in(m) ==
    LET c == [SeekStatus(m) EXCEPT !.wd.curtrack = @ + 1]
        d == disc_seek(c, c.curdrive, c.wd.curtrack)
    IN  [d EXCEPT !.wd.stepdir = 1]

cmd_step_out(m) ==
    LET s == SeekStatus(m)
        c == [s EXCEPT !.wd.curtrack = IF @ - 1 < 0 THEN 0 ELSE @ - 1]
        d == disc_seek(c, c.curdrive, c.wd.curtrack)
    IN  [d EXCEPT !.wd.stepdir = -1]

cmd_read_sector(m) ==
    disc_readsector(BusyStatus(m), m.curdrive, m.wd.sector, m.wd.track,
                    m.wd.curside, m.wd.density)

cmd_read_address(m) ==
    disc_readaddress(BusyStatus(m), m.curdrive, m.wd.track, m.wd.curside,
                     m.wd.density)

\* case 0xA has no break: the Read Address case runs after it
cmd_write_sector(m) ==
    LET w == disc_writesector(BusyStatus(m), m.curdrive, m.wd.sector,
                              m.wd.track, m.wd.curside, m.wd.density)
        a == [w EXCEPT !.nmi = BitOr(@, 2), !.wd.status = BitOr(@, 2),
                       !.wd.written = 0]
    IN  cmd_read_address(a)

\* variant: Force Interrupt only ever clears the busy bit
cmd_force_interrupt_KeepsStatus(m, val) ==
    LET t == [m EXCEPT !.fdc_time = 0, !.wd.status = BitClr(@, 1)]
        n == [t EXCEPT !.nmi = IF Has(val, 8) /\ IrqBoard(t) THEN 1 ELSE 0]
    IN  wd1770_setspindown(n)

\* variant: Force Interrupt always sets the ready pattern
cmd_force_interrupt_AlwaysReady(m, val) ==
    LET t == [m EXCEPT !.fdc_time = 0, !.wd.status = 128 + track0(m)]
        n == [t EXCEPT !.nmi = IF Has(val, 8) /\ IrqBoard(t) THEN 1 ELSE 0]
    IN  wd1770_setspindown(n)

cmd_force_interrupt(m, val) ==
    LET t == [m EXCEPT !.fdc_time = 0]
        s == IF Has(t.wd.status, 1)
             THEN [t EXCEPT !.wd.status = BitClr(@, 1)]
             ELSE [t EXCEPT !.wd.status = 128 + track0(t)]
        n == [s EXCEPT !.nmi = IF Has(val, 8) /\ IrqBoard(s) THEN 1 ELSE 0]
    IN  wd1770_setspindown(n)

cmd_write_track(m) ==
    disc_format(BusyStatus(m), m.curdrive, m.wd.track, m.wd.curside,
                m.wd.density)

cmd_bad(m) ==
    LET t == [m EXCEPT !.fdc_time = 0]
        n == IF IrqBoard(t) THEN [t EXCEPT !.nmi = 1] ELSE t
    IN  wd1770_spindown([n EXCEPT !.wd.status = 144])

\* if (wd1770.status & 1 && (val >> 4) != 0xD) return;
\* variant: a busy controller still accepts Read Sector
CommandRejected_ReadAccepted(m, val) ==
    Has(m.wd.status, 1) /\ (val \div 16) \notin {13, 8}

CommandRejected(m, val) == Has(m.wd.status, 1) /\ (val \div 16) # 13

write_command(m, val) ==
    IF CommandRejected(m, val) THEN Log(m, "rejected", val)
    ELSE LET c == [m EXCEPT !.wd.command = val]
             u == IF (val \div 16) # 13 THEN wd1770_spinup(c) ELSE c
             n == val \div 16
         IN  CASE n = 0 -> cmd_restore(u)
               [] n = 1 -> cmd_seek(u)
               [] n \in {2, 3} -> cmd_step(u)
               [] n \in {4, 5} -> cmd_step_in(u)
               [] n \in {6, 7} -> cmd_step_out(u)
               [] n = 8 -> cmd_read_sector(u)
               [] n = 10 -> cmd_write_sector(u)
               [] n = 12 -> cmd_read_address(u)
               [] n = 13 -> cmd_force_interrupt(u, val)
               [] n = 15 -> cmd_write_track(u)
               [] OTHER -> cmd_bad(u)

write_1770(m, addr, val) ==
    CASE addr % 4 = 0 -> write_command(m, val)
      [] addr % 4 = 1 -> [m EXCEPT !.wd.track = val]
      [] addr % 4 = 2 -> [m EXCEPT !.wd.sector = val]
      [] addr % 4 = 3 -> [m EXCEPT !.nmi = BitClr(@, 2),
                                   !.wd.status = BitClr(@, 2),
                                   !.wd.data = val, !.wd.written = 1]

\* the three control registers: reset bit, then drive, side, density bits
CtrlLatch(m, val, drivebit, sidebit, densbit) ==
    [m EXCEPT !.wd.ctrl = val,
              !.curdrive = IF Has(val, drivebit) THEN 1 ELSE 0,
              !.wd.curside = IF Has(val, sidebit) THEN 1 ELSE 0,
              !.wd.density = IF Has(val, densbit) THEN 0 ELSE 1]

write_ctrl_acorn(m, val) ==
    CtrlLatch(IF Has(val, 32) THEN wd1770_reset(m) ELSE m, val, 2, 4, 8)

write_ctrl_master(m, val) ==
    CtrlLatch(IF Has(val, 4) THEN wd1770_reset(m) ELSE m, val, 2, 16, 32)

write_ctrl_stl(m, val) == CtrlLatch(m, val, 1, 2, 4)

wd1770_write(m, addr, val) ==
    CASE m.board = "WD1770_ACORN" ->
            IF Has(addr, 4) THEN write_1770(m, addr, val)
            ELSE write_ctrl_acorn(m, val)
      [] m.board = "WD1770_MASTER" ->
            IF Has(addr, 8) THEN write_1770(m, addr, val)
            ELSE write_ctrl_master(m, val)
      [] m.board = "WD1770_SOLIDISK" ->
            IF Has(addr, 4) THEN write_ctrl_stl(m, val)
            ELSE write_1770(m, addr, val)

read_1770(m, addr) ==
    IF addr % 4 = 3
    THEN [m EXCEPT !.nmi = BitClr(@, 2), !.wd.status = BitClr(@, 2)]
    ELSE m

wd1770_read(m, addr) ==
    CASE m.board = "WD1770_ACORN" -> IF Has(addr, 4) THEN read_1770(m, addr) ELSE m
      [] m.board = "WD1770_MASTER" -> IF Has(addr, 8) THEN read_1770(m, addr) ELSE m
      [] m.board = "WD1770_SOLIDISK" -> read_1770(m, addr)

(***************************************************************************)
(* The main loop (6502.c, not part of these files) counts fdc_time down by *)
(* the cycles of each instruction and calls fdc_callback when it expires.  *)
(***************************************************************************)
run_fdc_time(m, cycles) ==
    IF m.fdc_time = 0 THEN m
    ELSE IF m.fdc_time - cycles <= 0
    THEN wd1770_callback([m EXCEPT !.fdc_time = 0])
    ELSE [m EXCEPT !.fdc_time = @ - cycles]

(***************************************************************************)
(* Host image files.  Image g (g a catalog index) is the blank image of    *)
(* catalog entry g: zero-filled, of the entry's size, with the entry's     *)
(* identifying tag and sector-count bytes.  BlankImage is a zero-filled    *)
(* file with no tag.                                                       *)
(***************************************************************************)
Sides(geo) == IF geo.sides = "SIDES_SINGLE" THEN 1 ELSE 2

\* the two bytes of a DFS sector count at off: the high byte whole, of
\* which try_dfs reads the low two bits
DfsCount(off, n) == (off :> ((n \div 256) % 256)) @@ ((off + 1) :> (n % 256))

CanonImage(g) ==
    LET geo == Catalog[g] IN
    IF g <= AdfsOldBase
    THEN [size |-> geo.size_in_sectors * geo.sector_size,
          data |-> TagAt(IF geo.size_in_sectors = 1600 THEN 2049 ELSE 1025, Nick)]
    ELSE IF g <= DfsBase
    THEN [size |-> geo.size_in_sectors * geo.sector_size,
          data |-> TagAt(513, Hugo) @@ TagAt(1787, Hugo)
                   @@ (252 :> (geo.size_in_sectors % 256))
                   @@ (253 :> ((geo.size_in_sectors \div 256) % 256))
                   @@ (254 :> (geo.size_in_sectors \div 65536))]
    ELSE [size |-> geo.size_in_sectors * geo.sector_size * Sides(geo),
          data |-> IF Sides(geo) = 1 THEN DfsCount(262, geo.size_in_sectors)
                   ELSE DfsCount(262, geo.size_in_sectors)
                        @@ DfsCount(Side2Off(geo) + 262, geo.size_in_sectors)]

BlankImageId == Len(Catalog) + 1

BlankImage == [size |-> 4096, data |-> << >>]

Image(i) == IF i = BlankImageId THEN BlankImage ELSE CanonImage(i)

Boards == {"WD1770_ACORN", "WD1770_MASTER", "WD1770_SOLIDISK"}

\* the address of 1770 register reg (0..3) and of the control register
RegAddr(board, reg) ==
    CASE board = "WD1770_ACORN" -> 4 + reg
      [] board = "WD1770_MASTER" -> 8 + reg
      [] board = "WD1770_SOLIDISK" -> reg

CtrlAddr(board) == IF board = "WD1770_SOLIDISK" THEN 4 ELSE 0

\* the control byte that selects drive, side and density (0 single, 1 double)
CtrlByte(board, drive, side, density) ==
    CASE board = "WD1770_ACORN" ->
            2 * drive + 4 * side + 8 * (1 - density)
      [] board = "WD1770_MASTER" ->
            2 * drive + 16 * side + 32 * (1 - density)
      [] board = "WD1770_SOLIDISK" ->
            drive + 2 * side + 4 * (1 - density)

(***************************************************************************)
(* Observations.  ev is the last step: its operation, its inputs and the   *)
(* trace of calls it made.  obs accumulates, over the steps, what the      *)
(* properties below need of the past: the operation the controller has in  *)
(* flight, the not-found countdown being timed, the bytes of the sector    *)
(* being written and read, and the exploration counters.                   *)
(***************************************************************************)
HasEv(log, e) == \E i \in DOMAIN log : log[i].e = e

CountEv(log, e) == Cardinality({i \in DOMAIN log : log[i].e = e})

TransferCalls ==
    {"disc_readsector", "disc_writesector", "disc_readaddress", "disc_format"}

Completions ==
    {"fdc_finishread", "fdc_notfound", "fdc_writeprotect",
     "fdc_datacrcerror", "fdc_headercrcerror"}

\* the events of log whose name is in names, in order
Only(log, names) == SelectSeq(log, LAMBDA x : x.e \in names)

\* fdc_notfound calls made by the backend's own countdown (the dispatch
\* layer's countdown logs disc_notfound_expired)
SdfNotFound(log) ==
    CountEv(log, "fdc_notfound") - CountEv(log, "disc_notfound_expired")

\* inflight/overlap after the calls of log, in order: a transfer call while
\* one is in flight is an overlap; a completion callback or an abort ends it
RECURSIVE Flight(_, _, _)
Flight(f, log, i) ==
    IF i > Len(log) THEN f
    ELSE LET e == log[i].e
             n == IF e \in TransferCalls
                  THEN [inflight |-> TRUE, overlap |-> f.overlap \/ f.inflight]
                  ELSE IF e \in Completions \/ e = "disc_abort"
                  THEN [inflight |-> FALSE, overlap |-> f.overlap]
                  ELSE f
         IN  Flight(n, log, i + 1)

\* the first transfer call of log, or "" if it has none
FirstTransfer(log) ==
    LET t == Only(log, TransferCalls)
    IN  IF t = << >> THEN [e |-> "", a |-> 0] ELSE t[1]

\* a read-sector, write-sector or read-address reached the idle image
\* backend in this step
OnIdleBackend(pre, log) ==
    /\ FirstTransfer(log).e \in
          {"disc_readsector", "disc_writesector", "disc_readaddress"}
    /\ pre.state = "ST_IDLE"
    /\ pre.drives[FirstTransfer(log).a] = "sdf"

NfOff ==
    [phase |-> "off", op |-> "", ticks |-> 0, calls |-> 0, idle |-> FALSE,
     bad |-> FALSE]

ForeignToNotFound ==
    {"fdc_data", "fdc_getdata", "fdc_finishread", "fdc_writeprotect", "putc"}

\* nf follows the not-found countdown of the backend: the operation that
\* started it, the transfer ticks since, the not-found callbacks the
\* backend has made, whether the backend was idle after the first of them,
\* and whether, up to that callback, any other callback was made or the
\* image files changed
ObsNotFound(nf, pre, post, log) ==
    IF OnIdleBackend(pre, log) /\ post.state = "ST_NOTFOUND"
    THEN [phase |-> "counting", op |-> FirstTransfer(log).e, ticks |-> 0,
          calls |-> 0, idle |-> FALSE, bad |-> FALSE]
    ELSE IF nf.phase = "off" \/ HasEv(log, "disc_abort")
            \/ Only(log, TransferCalls) # << >>
    THEN NfOff
    ELSE IF nf.phase = "fired"
    THEN [nf EXCEPT !.calls = @ + SdfNotFound(log)]
    ELSE [phase |-> IF SdfNotFound(log) > 0 THEN "fired" ELSE "counting",
          op    |-> nf.op,
          ticks |-> nf.ticks + CountEv(log, "tick"),
          calls |-> SdfNotFound(log),
          idle  |-> SdfNotFound(log) > 0 /\ post.state = "ST_IDLE",
          bad   |-> \/ nf.bad
                    \/ Only(log, ForeignToNotFound) # << >>
                    \/ post.disk # pre.disk]

\* the values of the events named e in log, in order
Values(log, e) == [i \in DOMAIN Only(log, {e}) |-> Only(log, {e})[i].a]

XferOff == [key |-> << >>, bytes |-> << >>, done |-> FALSE]

\* the sector the controller's registers address
RegKey(m) == << m.curdrive, m.wd.sector, m.wd.track, m.wd.curside >>

\* wr: the sector being written and the bytes the CPU has put in the data
\* register for it since the write-sector was accepted
ObsWrite(wr, pre, post, op, val, log) ==
    IF HasEv(log, "disc_writesector") /\ pre.state = "ST_IDLE"
       /\ post.state = "ST_WRITESECTOR"
    THEN [key |-> RegKey(pre), bytes |-> << >>, done |-> FALSE]
    ELSE IF wr.key = << >> \/ wr.done THEN wr
    ELSE IF HasEv(log, "disc_abort") \/ HasEv(log, "fdc_writeprotect") THEN XferOff
    ELSE IF op = "write_data" THEN [wr EXCEPT !.bytes = Append(@, val)]
    ELSE IF pre.state = "ST_WRITESECTOR" /\ HasEv(log, "fdc_finishread")
    THEN [wr EXCEPT !.done = TRUE]
    ELSE wr

\* rd: the sector being read and the bytes delivered by fdc_data for it
ObsRead(rd, pre, post, log) ==
    IF HasEv(log, "disc_readsector") /\ pre.state = "ST_IDLE"
       /\ post.state = "ST_READSECTOR"
    THEN [key |-> RegKey(pre), bytes |-> << >>, done |-> FALSE]
    ELSE IF rd.key = << >> \/ rd.done THEN rd
    ELSE IF HasEv(log, "disc_abort") THEN XferOff
    ELSE IF pre.state = "ST_READSECTOR"
    THEN [rd EXCEPT !.bytes = @ \o Values(log, "fdc_data"),
                    !.done = HasEv(log, "fdc_finishread")]
    ELSE rd

\* fresh: the CPU has written the data register since the last Write Sector
\* command reached the dispatch layer and since the last byte was pulled
ObsFresh(fresh, op, log) ==
    IF op = "write_data" THEN TRUE
    ELSE IF HasEv(log, "disc_writesector") THEN FALSE
    ELSE IF \E i \in DOMAIN log : log[i].e = "fdc_getdata" /\ log[i].a # -1
    THEN FALSE
    ELSE fresh

\* since: the disc_poll calls made after the last one on which the backend's
\* divider let the state machine advance; -1 while none has been seen, and
\* after a time slice of several polls
ObsSince(since, op, n, log) ==
    IF op # "disc_poll" THEN since
    ELSE IF n # 0 THEN -1
    ELSE IF HasEv(log, "tick") THEN 0
    ELSE IF since = -1 THEN -1
    ELSE since + 1

HostOps ==
    {"write_command", "write_track", "write_sector", "write_data",
     "write_ctrl", "read_data", "disc_load", "disc_close", "disc_abort"}

Observe(o, pre, post, op, val, n) ==
    LET f == Flight([inflight |-> o.inflight, overlap |-> o.overlap],
                    post.log, 1)
    IN  [o EXCEPT !.nops = IF pc.free /\ op \in HostOps THEN @ + 1 ELSE @,
                  !.npolls = IF pc.free /\ op = "disc_poll" THEN @ + 1 ELSE @,
                  !.inflight = f.inflight,
                  !.overlap = f.overlap,
                  !.fresh = ObsFresh(@, op, post.log),
                  !.since = ObsSince(@, op, n, post.log),
                  !.nf = ObsNotFound(@, pre, post, post.log),
                  !.wr = ObsWrite(@, pre, post, op, val, post.log),
                  !.rd = ObsRead(@, pre, post, post.log)]

ObsInit ==
    [nops |-> 0, npolls |-> 0, inflight |-> FALSE,
     overlap |-> FALSE, fresh |-> FALSE, since |-> -1, nf |-> NfOff, wr |-> XferOff, rd |-> XferOff]

(***************************************************************************)
(* The state after construction: zeroed statics, disc_init and             *)
(* wd1770_reset run, no image loaded.                                      *)
(***************************************************************************)
WdInit ==
    [command |-> 0, sector |-> 0, track |-> 0, status |-> 0, data |-> 0,
     ctrl |-> 0, curside |-> 0, curtrack |-> 0, density |-> 0, written |-> 0,
     stepdir |-> 0]

\* what a step remembers of the machine it started from
Pre(m) ==
    [wd |-> m.wd, nmi |-> m.nmi, fdc_time |-> m.fdc_time,
     curdrive |-> m.curdrive, disc_notfound |-> m.disc_notfound,
     state |-> m.state, count |-> m.count, drives |-> m.drives,
     writeprot |-> m.writeprot]

InitWith(boards, orders, images) ==
    /\ WD1770 \in boards
    /\ getc_order \in orders
    /\ disk = [i \in images |-> Image(i)]
    /\ wd1770 = WdInit
    /\ nmi = 0
    /\ fdc_time = 0
    /\ motorspin = SPINDOWN_COUNT
    /\ motoron = 0
    /\ curdrive = 0
    /\ disc_notfound = 0
    /\ writeprot = [d \in Drives |-> 0]
    /\ drives = [d \in Drives |-> "none"]
    /\ geometry = [d \in Drives |-> 0]
    /\ sdf_fp = [d \in Drives |-> NullFile]
    /\ current_track = [d \in Drives |-> 0]
    /\ state = "ST_IDLE"
    /\ count = 0
    /\ sdf_time = 0
    /\ sdf_drive = 0
    /\ sdf_side = 0
    /\ sdf_track = 0
    /\ sdf_sector = 0
    /\ crashed = FALSE
    /\ ev = [op |-> "init", a |-> 0, b |-> 0, log |-> << >>,
             pre |-> Pre(Machine)]
    /\ obs = ObsInit

\* the globals take the values of machine record r
Store(r) ==
    /\ WD1770' = r.board
    /\ wd1770' = r.wd
    /\ nmi' = r.nmi
    /\ fdc_time' = r.fdc_time
    /\ motorspin' = r.motorspin
    /\ motoron' = r.motoron
    /\ curdrive' = r.curdrive
    /\ disc_notfound' = r.disc_notfound
    /\ writeprot' = r.writeprot
    /\ drives' = r.drives
    /\ geometry' = r.geometry
    /\ sdf_fp' = r.sdf_fp
    /\ current_track' = r.current_track
    /\ state' = r.state
    /\ count' = r.count
    /\ sdf_time' = r.sdf_time
    /\ sdf_drive' = r.sdf_drive
    /\ sdf_side' = r.sdf_side
    /\ sdf_track' = r.sdf_track
    /\ sdf_sector' = r.sdf_sector
    /\ disk' = r.disk
    /\ getc_order' = r.order
    /\ crashed' = r.crashed

\* one step: handler result r of operation op with inputs a, b
Step(op, a, b, r) ==
    /\ ~crashed
    /\ Store(r)
    /\ ev' = [op |-> op, a |-> a, b |-> b, log |-> r.log,
              pre |-> Pre(Machine)]
    /\ obs' = Observe(obs, Machine, r, op, b, IF op = "disc_poll" THEN a ELSE 0)

(***************************************************************************)
(* The operations of the program: the CPU's register accesses, the host's  *)
(* load, close and abort, the poll tick and the main loop's timer.         *)
(***************************************************************************)
RegName(reg) ==
    CASE reg = 0 -> "write_command" [] reg = 1 -> "write_track"
      [] reg = 2 -> "write_sector" [] reg = 3 -> "write_data"

WriteReg(reg, val) ==
    Step(RegName(reg), reg, val,
         wd1770_write(Machine, RegAddr(WD1770, reg), val))

WriteCtrl(val) ==
    Step("write_ctrl", 0, val, wd1770_write(Machine, CtrlAddr(WD1770), val))

ReadData ==
    Step("read_data", 0, 0, wd1770_read(Machine, RegAddr(WD1770, 3)))

DiscLoad(drive, img, access) ==
    Step("disc_load", drive, img, disc_load(Machine, drive, img, access))

DiscClose(drive) == Step("disc_close", drive, 0, disc_close(Machine, drive))

DiscAbort(drive) == Step("disc_abort", drive, 0, disc_abort(Machine, drive))

DiscPoll == Step("disc_poll", 0, 0, disc_poll(Machine))

\* a time slice of n poll ticks
DiscPolls(n) == Step("disc_poll", n, 0, disc_polls(Machine, n))

\* io_seek called for catalog entry g on the stream of drive
IoSeek(g, drive, sector, track, side) ==
    Step("io_seek", g, << sector, track, side >>,
         io_seek(Machine, Catalog[g], drive, sector, track, side))

FdcTimer(cycles) ==
    /\ fdc_time > 0
    /\ Step("fdc_timer", 0, cycles, run_fdc_time(Machine, cycles))

(***************************************************************************)
(* Host programs.  A behaviour starts with a set-up: a sequence of         *)
(* operations (a script) run from the state after construction, whose      *)
(* steps are the operations above.  pc is [script, at, free]: the scenario *)
(* whose script runs, the index of its next step, and whether the script   *)
(* is over.                                                                *)
(***************************************************************************)
\* one step of a script: an operation, its numeric inputs and, for a load,
\* how the host file can be opened
Op(op, a, b, c, how) == [op |-> op, a |-> a, b |-> b, c |-> c, how |-> how]

Reg(reg, val) == Op("reg", reg, val, 0, "")

Polls(n) == [i \in 1 .. n |-> Op("poll", 0, 0, 0, "")]

\* Acorn DFS, 40 tracks, 10 sectors, single-sided, single density
DfsImage == DfsBase + 18

\* Acorn ADFS L, 80 tracks, 16 sectors, interleaved, double density
AdfsImage == AdfsOldBase + 1

\* the density input (0 single, 1 double) under which geometry g transfers
DensityOf(g) == IF Catalog[g].density = "DENS_SINGLE" THEN 0 ELSE 1

\* a scenario: the image and how it opens, the drive, the sector addressed
\* and, where the script has one, the command under test and the fault
\* planted before it
Scenario(kind, g, how, drive, sector, track, side) ==
    [kind |-> kind, g |-> g, how |-> how, drive |-> drive, sector |-> sector,
     track |-> track, side |-> side, cmd |-> 0, fault |-> ""]

Plain(kind) == Scenario(kind, DfsImage, "rw", 0, 0, 0, 0)

\* s.drive loaded with image s.g and selected, s.side and the image's
\* density set
Bind(s) ==
    << Op("load", s.drive, s.g, 0, s.how),
       Op("ctrl", s.drive, s.side, DensityOf(s.g), "") >>

\* the head moved to track: data register, Seek, completion callback
SeekTo(track) ==
    << Reg(3, track), Reg(0, 16), Op("timer", 0, 0, 0, "") >>

\* the sector s names addressed: seek to the track, sector register
Address(s) == Bind(s) \o SeekTo(s.track) \o << Reg(2, s.sector) >>

\* the step that makes a guard of the backend fail for the sector s names
Fault(s) ==
    CASE s.fault = "" -> << >>
      [] s.fault = "closed" -> << Op("close", s.drive, 0, 0, "") >>
      [] s.fault = "density" ->
            << Op("ctrl", s.drive, s.side, 1 - DensityOf(s.g), "") >>
      [] s.fault = "track" -> << Reg(1, s.track + 1) >>
      [] s.fault = "range" -> SeekTo(Catalog[s.g].tracks)
      [] s.fault = "sector" -> << Reg(2, Catalog[s.g].sectors_per_track) >>
      [] s.fault = "side" -> << Op("ctrl", s.drive, 1, DensityOf(s.g), "") >>

\* the byte the CPU supplies as byte number i of a sector
Pattern(i) == (i * 37 + 11) % 256

\* a Write Sector accepted and its first n bytes supplied and pulled: the
\* first transfer tick comes WRITE_DELAY polls later than a period
RECURSIVE WriteBytes(_)
WriteBytes(n) ==
    IF n = 0 THEN << Reg(0, 160) >>
    ELSE WriteBytes(n - 1) \o << Reg(3, Pattern(n - 1)) >>
         \o Polls(IF n = 1 THEN WRITE_DELAY + POLL_DIVIDER + 1
                  ELSE POLL_DIVIDER + 1)

\* the loads that bind the drives a close scenario wants bound
Bound(s) ==
    (IF s.b0 THEN << Op("load", 0, s.g, 0, "rw") >> ELSE << >>)
    \o (IF s.b1 THEN << Op("load", 1, s.g, 0, "rw") >> ELSE << >>)

Script(s) ==
    CASE s.kind = "fresh" -> << >>
      [] s.kind = "ready" -> Bind(s)
      [] s.kind = "reading" ->
            Bind(s) \o << Reg(0, 128) >> \o Polls(POLL_DIVIDER + 1)
      [] s.kind = "writing" ->
            Bind(s) \o << Reg(0, 160), Reg(3, 7) >>
                    \o Polls(WRITE_DELAY + POLL_DIVIDER)
      [] s.kind = "seeked" -> SeekTo(1)
      [] s.kind = "empty" -> << Reg(0, 128) >>
      [] s.kind = "underrun" ->
            Bind(s) \o << Reg(3, 9), Reg(0, 160) >>
                    \o Polls(WRITE_DELAY + 2 * POLL_DIVIDER + 1)
                    \o << Reg(3, 7) >> \o Polls(2 * POLL_DIVIDER + 1)
      [] s.kind = "side" -> Address(s) \o << Reg(0, 128) >>
      [] s.kind = "seek" ->
            << Op("load", s.drive, DfsImage, 0, "rw"),
               Op("io_seek", 0, 0, 0, "") >>
      [] s.kind = "notfound" ->
            Address(s) \o Fault(s)
            \o << Reg(0, s.cmd), Op("drain", 0, 0, 0, "") >>
            \o Polls(2 * (POLL_DIVIDER + 1))
      [] s.kind = "roundtrip" ->
            Address(s)
            \o << Reg(0, 160), Op("write_xfer", 0, 0, 0, ""),
                  Op("timer", 0, 0, 0, "") >>
            \o SeekTo(s.track)
            \o << Reg(0, 128), Op("read_xfer", 0, 0, 0, "") >>
      [] s.kind = "protect" ->
            Bind(s) \o WriteBytes(s.bytes) \o Polls(s.after)
            \o (IF s.pending THEN << Reg(3, Pattern(s.bytes)) >> ELSE << >>)
            \o << Op("load", s.drive, s.by, 0, "ro") >>
            \o Polls(2 * (POLL_DIVIDER + 1))
      [] s.kind = "detect" -> << Op("load", s.drive, s.g, 0, s.how) >>
      [] s.kind = "reload" ->
            Bind(s)
            \o << Op("load", s.drive, s.by, 0, s.how2), Reg(0, 128) >>
            \o Polls(POLL_DIVIDER + 1)
      [] s.kind = "close" -> Bound(s) \o << Op("close", s.drive, 0, 0, "") >>
      [] s.kind = "unset" ->
            Bound(s)
            \o << Op("ctrl", s.drive, 0, 0, ""), Reg(0, s.cmd),
                  Op("expire", 0, 0, 0, "") >>
            \o Polls(POLL_DIVIDER + 1)
      [] s.kind = "read" ->
            Address(s)
            \o << Reg(0, 128), Op("drain", 0, 0, 0, "") >>
            \o Polls(2 * (POLL_DIVIDER + 1))
      [] s.kind = "address" ->
            Address(s) \o << Reg(0, 192) >>
            \o Polls(9 * (POLL_DIVIDER + 1))
            \o << Op("timer", 0, 0, 0, ""), Reg(0, 128) >>
            \o Polls(POLL_DIVIDER + 1)
      [] s.kind = "divider" ->
            Address(s) \o Fault(s) \o << Reg(0, 128) >>
            \o Polls(3 * (POLL_DIVIDER + 1) + 1)
      [] s.kind = "resetbit" ->
            << Reg(0, 0), Op("ctrl_byte", s.cmd, 0, 0, "") >>
      [] s.kind = "usable" ->
            << Op("load", s.drive, s.g, 0, s.how),
               Op("ctrl", s.drive, s.side, 0, ""),
               Reg(0, 128), Op("settle", 0, 0, 0, ""), Reg(0, 208),
               Op("ctrl", s.drive, s.side, 1, ""),
               Reg(0, 128), Op("settle", 0, 0, 0, "") >>
      [] s.kind = "stale" ->
            Address(s)
            \o << Reg(0, 160), Op("write_xfer", 0, 0, 0, ""),
                  Op("timer", 0, 0, 0, ""),
                  Op("load", s.cmd, DfsImage, 0, "rw"),
                  Op("ctrl", s.cmd, 0, DensityOf(DfsImage), ""),
                  Reg(0, 192) >>
            \o Polls(3 * (POLL_DIVIDER + 1))

\* the steps that repeat: the transfer loops, drain and settle until the
\* backend is idle again, expire until the dispatch layer's countdown has
\* run out
Pumps == {"write_xfer", "read_xfer", "drain", "settle", "expire"}

\* write_xfer and read_xfer are the CPU's transfer loops: it serves the
\* data-request interrupt when one is pending, and otherwise a time slice
\* of one transfer period (POLL_DIVIDER + 1 poll ticks) passes
RunOp(st) ==
    \/ st.op = "load" /\ DiscLoad(st.a, st.b, st.how)
    \/ st.op = "ctrl" /\ WriteCtrl(CtrlByte(WD1770, st.a, st.b, st.c))
    \/ st.op = "ctrl_byte" /\ WriteCtrl(st.a)
    \/ st.op = "reg" /\ WriteReg(st.a, st.b)
    \/ st.op = "poll" /\ DiscPoll
    \/ st.op = "timer" /\ FdcTimer(FINISH_TIME)
    \/ st.op = "close" /\ DiscClose(st.a)
    \/ st.op = "drain" /\ DiscPoll
    \/ st.op = "expire" /\ DiscPoll
    \/ st.op = "settle" /\ DiscPolls(POLL_DIVIDER + 1)
    \/ st.op = "io_seek" /\ IoSeek(pc.script.g, pc.script.drive,
                                    pc.script.sector, pc.script.track,
                                    pc.script.side)
    \/ st.op = "write_xfer" /\ Has(nmi, 2)
                            /\ WriteReg(3, Pattern(Len(obs.wr.bytes)))
    \/ st.op = "write_xfer" /\ ~Has(nmi, 2) /\ DiscPolls(POLL_DIVIDER + 1)
    \/ st.op = "read_xfer" /\ Has(nmi, 2) /\ ReadData
    \/ st.op = "read_xfer" /\ ~Has(nmi, 2) /\ DiscPolls(POLL_DIVIDER + 1)

\* the position after the step at index at of scenario s; the host is free
\* once the script has run
After(s, at) ==
    [script |-> s, at |-> at + 1, free |-> at + 1 > Len(Script(s))]

\* the step just taken by a pump has not finished its job
Repeats(op) ==
    /\ op \in Pumps
    /\ IF op = "expire" THEN disc_notfound' # 0 ELSE state' # "ST_IDLE"

SetUp ==
    /\ ~pc.free
    /\ RunOp(Script(pc.script)[pc.at])
    /\ pc' = IF Repeats(Script(pc.script)[pc.at].op)
             THEN pc
             ELSE After(pc.script, pc.at)

(***************************************************************************)
(* Spec: the whole subsystem.  After one of the set-ups, the CPU's         *)
(* register writes, the host's loads, closes and aborts, poll ticks and    *)
(* the timer interleave freely, with inputs from small menus.              *)
(***************************************************************************)
SpecScripts ==
    {Plain("fresh"), Plain("ready"), Plain("reading"), Plain("writing"),
     Plain("seeked"), Plain("empty"), Plain("underrun"),
     Scenario("ready", DfsImage, "ro", 1, 0, 0, 0),
     Scenario("underrun", DfsImage, "ro", 1, 0, 0, 0)}

SpecImages == {DfsImage}

\* restore, seek, step in, read sector, write sector, read address, force
\* interrupt (without and with the interrupt bit), write track, and 0x90
SpecCommands == {0, 16, 64, 128, 160, 192, 208, 216, 240, 144}

Init ==
    /\ InitWith(Boards, {"lr"}, SpecImages)
    /\ pc \in {After(s, 0) : s \in SpecScripts}

Budget == pc.free /\ obs.nops < MaxOps

Command ==
    \E val \in SpecCommands : Budget /\ WriteReg(0, val) /\ pc' = pc

Register ==
    \E reg \in {1, 2, 3} : Budget /\ WriteReg(reg, 1) /\ pc' = pc

Control ==
    \E d \in Drives, dens \in {0, 1} :
        Budget /\ WriteCtrl(CtrlByte(WD1770, d, d, dens)) /\ pc' = pc

Load ==
    \E d \in Drives, access \in {"rw", "ro"} :
        Budget /\ DiscLoad(d, DfsImage, access) /\ pc' = pc

Close == \E d \in Drives : Budget /\ DiscClose(d) /\ pc' = pc

Abort == \E d \in Drives : Budget /\ DiscAbort(d) /\ pc' = pc

Poll == pc.free /\ obs.npolls < MaxPolls /\ DiscPoll /\ pc' = pc

Timer == pc.free /\ FdcTimer(FINISH_TIME) /\ pc' = pc

Next ==
    \/ SetUp
    \/ Command
    \/ Register
    \/ Control
    \/ Load
    \/ Close
    \/ Abort
    \/ Poll
    \/ Timer

Spec == Init /\ [][Next]_vars

(***************************************************************************)
(* Properties of the controller's command register.                        *)
(***************************************************************************)
\* every call the controller can make into the drive-dispatch layer
DispatchCalls == TransferCalls \cup {"disc_seek", "disc_abort"}

\* the step writes val's class of command: the upper nibble is n
CommandWrite(n) == ev'.op = "write_command" /\ ev'.b \div 16 = n

ForceInterruptWrite == CommandWrite(13)

\* C1: a command-register write whose upper nibble is not 0xD, made while
\* the busy bit is set, changes nothing: the controller's registers, head
\* position, step direction, motor state, timer and interrupt lines, the
\* dispatch layer and the backend's state machine and files keep their
\* values, and the handler makes no call into the drive-dispatch layer.
C1_BusyCommandIgnored ==
    [][ (/\ ev'.op = "write_command"
         /\ ev'.b \div 16 # 13
         /\ Has(wd1770.status, 1))
        => /\ UNCHANGED << wd1770, nmi, fdc_time, motorspin, motoron,
                           curdrive, disc_notfound, writeprot, drives,
                           geometry, sdf_fp, current_track, state, count,
                           sdf_time, sdf_drive, sdf_side, sdf_track,
                           sdf_sector, disk >>
           /\ Only(ev'.log, DispatchCalls) = << >> ]_vars

\* a Read Sector written in the middle of a write-sector transfer was ignored
C1_Witness ==
    /\ ev.op = "write_command"
    /\ ev.b = 128
    /\ Has(ev.pre.wd.status, 1)
    /\ ev.pre.state = "ST_WRITESECTOR"
    /\ HasEv(ev.log, "rejected")

\* C2: the controller never calls a transfer operation of the dispatch layer
\* (read-sector, write-sector, read-address, format) while the transfer it
\* dispatched before has not completed (no completion callback and no abort
\* since): at most one dispatched transfer is in flight.
C2_OneTransferInFlight == ~obs.overlap

C9_ForceInterruptBusy ==
    [][ (ForceInterruptWrite /\ Has(wd1770.status, 1))
        => /\ wd1770'.status = wd1770.status - 1
           /\ wd1770'.track = wd1770.track
           /\ wd1770'.sector = wd1770.sector
           /\ wd1770'.data = wd1770.data ]_vars

\* a Force Interrupt in the middle of a read, with the data request pending
C9_Witness ==
    /\ ev.op = "write_command"
    /\ ev.b \div 16 = 13
    /\ ev.pre.wd.status = 131
    /\ ev.pre.state = "ST_READSECTOR"
    /\ wd1770.status = 130

\* C10: abort on either drive, bound or not, while the backend is idle and
\* the dispatch layer's not-found countdown is not running, leaves the
\* backend state, the countdown and the controller unchanged (so that no
\* later poll tick has a completion to deliver).
C10_IdleAbortNoOp ==
    [][ (ev'.op = "disc_abort" /\ state = "ST_IDLE" /\ disc_notfound = 0)
        => UNCHANGED << state, count, sdf_time, sdf_drive, sdf_side,
                        sdf_track, sdf_sector, disc_notfound, wd1770, nmi,
                        fdc_time, motorspin, motoron >> ]_vars

(***************************************************************************)
(* Properties of the write-sector transfer.                                *)
(***************************************************************************)
\* the step is a transfer tick of the backend in the write-sector state, and
\* the CPU has supplied no byte since the command or the last pull
StarvedWriteTick ==
    /\ ev'.op = "disc_poll"
    /\ HasEv(ev'.log, "tick")
    /\ state = "ST_WRITESECTOR"
    /\ ~obs.fresh

\* the tick reports an underrun and changes neither file, counter nor state
Underrun ==
    /\ HasEv(ev'.log, "underrun")
    /\ Only(ev'.log, {"putc", "putc_failed"}) = << >>
    /\ disk' = disk
    /\ count' = count
    /\ state' = "ST_WRITESECTOR"

\* C7 as stated: in the write-sector state, every transfer tick at which
\* the CPU has not written the data register since the Write Sector command
\* or since the previous byte was pulled reports an underrun: no byte is
\* written to the image file, the remaining-byte counter is unchanged and
\* the backend stays in the write-sector state.
C7_UnderrunEveryTick == [][ StarvedWriteTick => Underrun ]_vars

\* C7, amended: the same, at the ticks at which the drive of the transfer
\* is not write-protected.
C7_UnderrunUnlessProtected ==
    [][ (StarvedWriteTick /\ writeprot[sdf_drive] = 0) => Underrun ]_vars

\* the first tick after a Write Sector command that followed a write of 9
\* to the data register: underrun, the whole sector still to come
C7_Witness ==
    /\ ev.op = "disc_poll"
    /\ HasEv(ev.log, "underrun")
    /\ ev.pre.state = "ST_WRITESECTOR"
    /\ wd1770.data = 9
    /\ wd1770.command = 160
    /\ count = Catalog[DfsImage].sector_size
    /\ state = "ST_WRITESECTOR"

(***************************************************************************)
(* SpecSeek: io_seek as a function of its arguments.  A behaviour opens a  *)
(* stream and calls io_seek once, for one catalog entry and one valid      *)
(* (sector, track, side) under it, drawn at the start.                     *)
(***************************************************************************)
ValidSides(g) == 0 .. Sides(Catalog[g]) - 1

SeekScenarios ==
    UNION { { Scenario("seek", g, "rw", 0, sector, track, side) :
                sector \in 0 .. Catalog[g].sectors_per_track - 1,
                track \in 0 .. Catalog[g].tracks - 1,
                side \in ValidSides(g) } : g \in GeoIds }

InitSeek ==
    /\ InitWith({"WD1770_ACORN"}, {"lr"}, {DfsImage})
    /\ pc \in {After(s, 0) : s \in SeekScenarios}

NextSeek == SetUp

SpecSeek == InitSeek /\ [][NextSeek]_vars

\* the offset the claim gives for geometry geo
ClaimedOffset(geo, sector, track, side) ==
    LET bytes_per_track == geo.sectors_per_track * geo.sector_size
    IN  sector * geo.sector_size +
        CASE side = 0 /\ geo.sides = "SIDES_INTERLEAVED" ->
                2 * (track * bytes_per_track)
          [] side = 0 /\ geo.sides # "SIDES_INTERLEAVED" ->
                track * bytes_per_track
          [] side = 1 /\ geo.sides = "SIDES_SEQUENTIAL" ->
                (track + geo.tracks) * bytes_per_track
          [] side = 1 /\ geo.sides = "SIDES_INTERLEAVED" ->
                (2 * track + 1) * bytes_per_track

\* C5: for every geometry and every valid (track, side, sector), io_seek
\* positions the stream at sector * sector_size plus: for side 0, track *
\* sectors_per_track * sector_size, doubled when sides are interleaved; for
\* side 1, (track + tracks) * sectors_per_track * sector_size when sides
\* are sequential and (2 * track + 1) * sectors_per_track * sector_size
\* when interleaved.  With 80 tracks of 16 sectors of 256 bytes, track 10
\* side 1 is at (10*2+1)*16*256 + sector*256 interleaved and at
\* (10+80)*16*256 + sector*256 sequential.
C5_SeekOffset ==
    ev.op = "io_seek" =>
        LET geo == Catalog[ev.a]
            sector == ev.b[1]
            track == ev.b[2]
            side == ev.b[3]
            d == pc.script.drive
        IN  /\ sdf_fp[d].pos = ClaimedOffset(geo, sector, track, side)
            /\ Only(ev.log, {"fseek"}) =
                   << Event("fseek", ClaimedOffset(geo, sector, track, side)) >>
            /\ (/\ geo.tracks = 80 /\ geo.sectors_per_track = 16
                /\ geo.sector_size = 256 /\ track = 10 /\ side = 1)
               => /\ geo.sides = "SIDES_INTERLEAVED"
                     => sdf_fp[d].pos = (10 * 2 + 1) * 16 * 256 + sector * 256
                  /\ geo.sides = "SIDES_SEQUENTIAL"
                     => sdf_fp[d].pos = (10 + 80) * 16 * 256 + sector * 256

\* the sequential example: 80 tracks, 16 sectors, 256 bytes, track 10,
\* side 1, sector 3
C5_Witness ==
    /\ ev.op = "io_seek"
    /\ Catalog[ev.a].sides = "SIDES_SEQUENTIAL"
    /\ Catalog[ev.a].tracks = 80
    /\ Catalog[ev.a].sectors_per_track = 16
    /\ ev.b = << 3, 10, 1 >>
    /\ sdf_fp[0].pos = 369408

(***************************************************************************)
(* SpecSide: Read Sector under every geometry detection binds.  A          *)
(* behaviour loads the image of one geometry, selects the drive, a side    *)
(* and the image's density, seeks to the first or the last track and       *)
(* issues Read Sector for the first or the last sector.                    *)
(***************************************************************************)
\* the geometries detection binds: those sdf_load binds to their image
Bindable == {g \in GeoIds : Detect(CanonImage(g), "lr").geo = g}

\* the first and the last sector of the disc surface, as (sector, track)
Corners(g) ==
    { << 0, 0 >>,
      << Catalog[g].sectors_per_track - 1, Catalog[g].tracks - 1 >> }

SideScenarios ==
    UNION { { Scenario("side", g, "rw", g % NUM_DRIVES, c[1], c[2], side) :
                c \in Corners(g), side \in {0, 1} } : g \in Bindable }

InitSide ==
    \E s \in SideScenarios :
        /\ InitWith(Boards, {"lr", "rl"}, {s.g})
        /\ pc = After(s, 0)

NextSide == SetUp

SpecSide == InitSide /\ [][NextSide]_vars

\* the step is a Read Sector command the controller accepts
ReadSectorWrite ==
    /\ ev'.op = "write_command"
    /\ ev'.b \div 16 = 8
    /\ ~Has(wd1770.status, 1)

\* every guard of read-sector but the side guard holds for the registers'
\* sector on the selected drive
GuardsButSide ==
    /\ drives[curdrive] = "sdf"
    /\ state = "ST_IDLE"
    /\ geometry[curdrive] # 0
    /\ LET geo == Catalog[geometry[curdrive]]
       IN  /\ \/ wd1770.density = 0 /\ geo.density = "DENS_SINGLE"
              \/ wd1770.density # 0 /\ geo.density = "DENS_DOUBLE"
           /\ wd1770.track = current_track[curdrive]
           /\ wd1770.track < geo.tracks
           /\ wd1770.sector < geo.sectors_per_track

\* C6: with every other guard satisfied, a read-sector on side 0 enters
\* the read transfer, and a read-sector on side 1 enters it if and only if
\* the bound geometry is not single-sided; otherwise it starts the
\* not-found countdown.
C6_SideGuard ==
    [][ (ReadSectorWrite /\ GuardsButSide)
        => LET geo == Catalog[geometry[curdrive]]
           IN  IF wd1770.curside = 0 \/ geo.sides # "SIDES_SINGLE"
               THEN state' = "ST_READSECTOR" /\ count' = geo.sector_size
               ELSE state' = "ST_NOTFOUND" /\ count' = NOTFOUND_COUNT ]_vars

\* the 40-track, 10-sector single-sided single-density geometry: sector 9
\* of track 39 on side 1 starts the not-found countdown
C6_Witness ==
    /\ ev.op = "write_command"
    /\ ev.b = 128
    /\ ev.pre.state = "ST_IDLE"
    /\ geometry[curdrive] = DfsImage
    /\ current_track[curdrive] = 39
    /\ wd1770.track = 39
    /\ wd1770.sector = 9
    /\ wd1770.curside = 1
    /\ wd1770.density = 0
    /\ state = "ST_NOTFOUND"

(***************************************************************************)
(* SpecNotFound: a transfer command whose precondition fails, followed to  *)
(* the end of the countdown and two transfer ticks beyond.  A behaviour    *)
(* addresses a sector of a loaded image, plants one fault, issues Read     *)
(* Sector, Write Sector or Read Address and polls.                         *)
(***************************************************************************)
\* the faults that make a guard of the command with upper nibble n fail
\* under geometry g (Read Address has no sector guard; side 1 fails on a
\* single-sided geometry only; close consults drive 0)
Faults(g, drive, n) ==
    {"density", "track", "range"}
    \cup (IF n # 12 THEN {"sector"} ELSE {})
    \cup (IF Sides(Catalog[g]) = 1 THEN {"side"} ELSE {})
    \cup (IF drive = 0 THEN {"closed"} ELSE {})

NotFoundScenario(g, drive, cmd, fault) ==
    [Scenario("notfound", g, "rw", drive, 1, 2, 0) EXCEPT
        !.cmd = cmd, !.fault = fault]

NotFoundScenarios ==
    UNION { { NotFoundScenario(gd[1], gd[2], cmd, fault) :
                fault \in Faults(gd[1], gd[2], cmd \div 16) } :
            gd \in {<< DfsImage, 0 >>, << AdfsImage, 1 >>},
            cmd \in {128, 160, 192} }

BoardOf(s) == IF s.drive = 0 THEN "WD1770_ACORN" ELSE "WD1770_MASTER"

InitNotFound ==
    \E s \in NotFoundScenarios :
        /\ InitWith({BoardOf(s)}, {"lr"}, {s.g})
        /\ pc = After(s, 0)

NextNotFound == SetUp

SpecNotFound == InitNotFound /\ [][NextNotFound]_vars

\* a guard of the transfer command with upper nibble n fails for the
\* registers' sector on the selected drive
PreconditionFails(n) ==
    IF geometry[curdrive] = 0 THEN TRUE
    ELSE LET geo == Catalog[geometry[curdrive]]
         IN  \/ wd1770.density = 0 /\ geo.density # "DENS_SINGLE"
             \/ wd1770.density # 0 /\ geo.density # "DENS_DOUBLE"
             \/ wd1770.track # current_track[curdrive]
             \/ wd1770.track >= geo.tracks
             \/ n # 12 /\ wd1770.sector >= geo.sectors_per_track
             \/ wd1770.curside = 1 /\ geo.sides = "SIDES_SINGLE"

\* the step is a Read Sector, Write Sector or Read Address command that
\* reaches the idle backend with a failing precondition
FailingTransfer ==
    \E n \in {8, 10, 12} :
        /\ ev'.op = "write_command"
        /\ ev'.b \div 16 = n
        /\ ~Has(wd1770.status, 1)
        /\ drives[curdrive] = "sdf"
        /\ state = "ST_IDLE"
        /\ PreconditionFails(n)

\* during the countdown the backend has 500 minus the ticks so far to go
\* and has made no callback and written no byte; the not-found callback
\* comes at tick 500, once, and leaves the backend idle
CountdownExact ==
    /\ obs.nf.phase = "counting"
       => /\ state = "ST_NOTFOUND"
          /\ obs.nf.ticks < NOTFOUND_COUNT
          /\ count = NOTFOUND_COUNT - obs.nf.ticks
          /\ obs.nf.calls = 0
          /\ ~obs.nf.bad
    /\ obs.nf.phase = "fired"
       => /\ obs.nf.ticks = NOTFOUND_COUNT
          /\ obs.nf.calls = 1
          /\ obs.nf.idle
          /\ ~obs.nf.bad

\* C3: a read-sector, write-sector or read-address invoked on the idle
\* backend with a failing precondition starts a countdown of exactly 500
\* transfer ticks, at the end of which the backend calls the not-found
\* callback once and is idle; until then it makes no data, getdata,
\* finished or write-protect callback and writes no byte of an image file.
C3_NotFoundAfter500 ==
    [][ /\ FailingTransfer
           => /\ state' = "ST_NOTFOUND"
              /\ count' = NOTFOUND_COUNT
              /\ obs'.nf.phase = "counting"
        /\ CountdownExact' ]_vars

\* a Write Sector for a sector number beyond the track: the callback has
\* come at tick 500 and a further tick has passed without another
C3_Witness ==
    /\ pc.script.kind = "notfound"
    /\ pc.script.fault = "sector"
    /\ obs.nf.phase = "fired"
    /\ obs.nf.op = "disc_writesector"
    /\ obs.nf.ticks = NOTFOUND_COUNT
    /\ obs.nf.calls = 1
    /\ ev.op = "disc_poll"
    /\ HasEv(ev.log, "tick")
    /\ ~HasEv(ev.log, "fdc_notfound")
    /\ state = "ST_IDLE"
    /\ wd1770.status = 16

(***************************************************************************)
(* SpecRoundTrip: a sector written and read back.  A behaviour loads the   *)
(* image of one geometry detection binds, addresses the first sector of    *)
(* the disc or the last sector of its last side, issues Write Sector and   *)
(* supplies the sector's bytes on each data request, then seeks to the     *)
(* same track and issues Read Sector.                                      *)
(***************************************************************************)
RoundTripScenarios ==
    UNION { { Scenario("roundtrip", g, "rw", g % NUM_DRIVES, 0, 0, 0),
              Scenario("roundtrip", g, "rw", g % NUM_DRIVES,
                       Catalog[g].sectors_per_track - 1,
                       Catalog[g].tracks - 1, Sides(Catalog[g]) - 1) } :
            g \in Bindable }

BoardFor(g) ==
    CASE g % 3 = 0 -> "WD1770_ACORN"
      [] g % 3 = 1 -> "WD1770_MASTER"
      [] g % 3 = 2 -> "WD1770_SOLIDISK"

InitRoundTrip ==
    \E s \in RoundTripScenarios :
        /\ InitWith({BoardFor(s.g)}, {"lr"}, {s.g})
        /\ pc = After(s, 0)

NextRoundTrip == SetUp

SpecRoundTrip == InitRoundTrip /\ [][NextRoundTrip]_vars

\* a is the first Len(a) elements of b
IsPrefix(a, b) == Len(a) <= Len(b) /\ a = SubSeq(b, 1, Len(a))

\* C4: after a completed write-sector of sector-size bytes supplied through
\* the data register, a read-sector of the same (drive, sector, track,
\* side) delivers through the data callback the same bytes in the same
\* order: at every moment what has been delivered is the beginning of what
\* was written, and a completed read has delivered all of it.
C4_RoundTrip ==
    (/\ obs.wr.done
     /\ obs.rd.key # << >>
     /\ obs.rd.key = obs.wr.key)
    => /\ Len(obs.wr.bytes) = Catalog[geometry[obs.wr.key[1]]].sector_size
       /\ IsPrefix(obs.rd.bytes, obs.wr.bytes)
       /\ obs.rd.done => obs.rd.bytes = obs.wr.bytes

\* the last sector of the last track of a disc read back whole
C4_Witness ==
    /\ obs.wr.done
    /\ obs.rd.done
    /\ obs.rd.key = obs.wr.key
    /\ obs.rd.key[2] > 0
    /\ obs.rd.key[3] > 0
    /\ Len(obs.rd.bytes) >= 256
    /\ obs.rd.bytes = obs.wr.bytes
    /\ obs.rd.bytes[2] = Pattern(1)
    /\ obs.rd.bytes[2] # obs.rd.bytes[1]
    /\ ev.op = "disc_poll"
    /\ HasEv(ev.log, "fdc_finishread")

(***************************************************************************)
(* SpecProtect: write-protect engaged during a write-sector transfer.     *)
(* The flag of the drive is set by sdf_load opening a file read-only: of  *)
(* an image no detector matches (the binding stays as it was) or of the   *)
(* image itself.  It is engaged after 0, 1 or 2 bytes have been written,  *)
(* at every offset within the transfer period, with or without a byte     *)
(* pending in the data register.                                          *)
(***************************************************************************)
ProtectScenarios ==
    { [kind |-> "protect", g |-> DfsImage, how |-> "rw", drive |-> d,
       sector |-> 0, track |-> 0, side |-> 0, cmd |-> 160, fault |-> "",
       bytes |-> n, after |-> j, pending |-> p, by |-> i] :
      d \in Drives, n \in 0 .. 2, j \in 0 .. POLL_DIVIDER,
      p \in BOOLEAN, i \in {BlankImageId, DfsImage} }

InitProtect ==
    /\ InitWith(Boards, {"lr"}, {DfsImage, BlankImageId})
    /\ pc \in {After(s, 0) : s \in ProtectScenarios}
    /\ WD1770 = BoardFor(pc.script.after)

NextProtect == SetUp

SpecProtect == InitProtect /\ [][NextProtect]_vars

\* the step is a poll of a write-sector transfer on a write-protected drive
ProtectedWritePoll ==
    /\ ev'.op = "disc_poll"
    /\ state = "ST_WRITESECTOR"
    /\ writeprot[sdf_drive] # 0

\* the bytes the transfer had written are in the image file
WrittenKept ==
    \A i \in 0 .. pc.script.bytes - 1 :
        ByteAt(disk'[pc.script.g], i) = Pattern(i)

\* C11: once the write-protect flag of the drive is set during a
\* write-sector transfer, the polls before the next transfer tick do
\* nothing, and that tick invokes the write-protect callback exactly once,
\* pulls no byte from the controller, writes nothing to the image file and
\* leaves the backend idle, with the bytes written before still in the file;
\* no later poll invokes the write-protect callback again.
C11_ProtectMidTransfer ==
    [][ /\ ProtectedWritePoll
           => /\ Only(ev'.log, {"putc", "putc_failed", "fdc_getdata",
                                "underrun"}) = << >>
              /\ disk' = disk
              /\ WrittenKept
              /\ IF HasEv(ev'.log, "tick")
                 THEN /\ CountEv(ev'.log, "fdc_writeprotect") = 1
                      /\ Len(Only(ev'.log, Completions)) = 1
                      /\ state' = "ST_IDLE"
                 ELSE /\ Only(ev'.log, Completions) = << >>
                      /\ state' = "ST_WRITESECTOR"
        /\ (ev'.op = "disc_poll" /\ state = "ST_IDLE")
           => Only(ev'.log, Completions) = << >> /\ disk' = disk ]_vars

\* two bytes written, a third pending, protection engaged in mid-period:
\* the tick has fired the write-protect callback
C11_Witness ==
    /\ pc.script.kind = "protect"
    /\ pc.script.bytes = 2
    /\ pc.script.after = 8
    /\ pc.script.pending
    /\ pc.script.by = BlankImageId
    /\ ev.op = "disc_poll"
    /\ ev.pre.state = "ST_WRITESECTOR"
    /\ HasEv(ev.log, "fdc_writeprotect")
    /\ state = "ST_IDLE"
    /\ ByteAt(disk[DfsImage], 1) = Pattern(1)
    /\ ByteAt(disk[DfsImage], 2) = 0

(***************************************************************************)
(* Format track, under Spec.                                               *)
(***************************************************************************)
\* every guard of format-track holds for the registers' track on the
\* selected drive, which is not write-protected
FormatGuards ==
    /\ drives[curdrive] = "sdf"
    /\ state = "ST_IDLE"
    /\ geometry[curdrive] # 0
    /\ writeprot[curdrive] = 0
    /\ LET geo == Catalog[geometry[curdrive]]
       IN  /\ \/ wd1770.density = 0 /\ geo.density = "DENS_SINGLE"
              \/ wd1770.density # 0 /\ geo.density = "DENS_DOUBLE"
           /\ wd1770.track = current_track[curdrive]
           /\ wd1770.track < geo.tracks
           /\ wd1770.curside = 0 \/ geo.sides # "SIDES_SINGLE"

\* C12: a Write Track command accepted by the controller whose format-track
\* satisfies every guard on a drive that is not write-protected leaves the
\* backend in the format state with its counter at sectors-per-track, and
\* does not start the not-found countdown.
C12_FormatEntersFormat ==
    [][ (CommandWrite(15) /\ ~Has(wd1770.status, 1) /\ FormatGuards)
        => /\ state' = "ST_FORMAT"
           /\ count' = Catalog[geometry[curdrive]].sectors_per_track ]_vars

(***************************************************************************)
(* SpecLoad: loading and closing.  A detect scenario loads the image that  *)
(* matches one catalog entry exactly; a reload scenario loads, on a drive  *)
(* already bound, a file that cannot be opened or that no detector         *)
(* matches, and then reads a sector; a close scenario closes one drive     *)
(* with each drive bound or empty.                                         *)
(***************************************************************************)
LoadScenario(kind, g, how, drive, by, how2, b0, b1) ==
    [kind |-> kind, g |-> g, how |-> how, drive |-> drive, sector |-> 0,
     track |-> 0, side |-> 0, cmd |-> 0, fault |-> "", by |-> by,
     how2 |-> how2, b0 |-> b0, b1 |-> b1]

DetectScenarios ==
    { LoadScenario("detect", g, how, d, g, how, FALSE, FALSE) :
      g \in GeoIds, how \in {"rw", "ro"}, d \in Drives }

ReloadScenarios ==
    { LoadScenario("reload", g, "rw", d, BlankImageId, how2, FALSE, FALSE) :
      g \in {DfsImage, AdfsImage}, d \in Drives, how2 \in {"rw", "ro", "none"} }

CloseScenarios ==
    { LoadScenario("close", DfsImage, "rw", d, DfsImage, "rw", b0, b1) :
      d \in Drives, b0 \in BOOLEAN, b1 \in BOOLEAN }

LoadScenarios == DetectScenarios \cup ReloadScenarios \cup CloseScenarios

InitLoad ==
    \E s \in LoadScenarios :
        /\ InitWith({BoardFor(s.g)}, {"lr"}, {s.g, BlankImageId})
        /\ pc = After(s, 0)

NextLoad == SetUp

SpecLoad == InitLoad /\ [][NextLoad]_vars

\* C13: an image whose tag bytes, sector-count field or fields and file
\* size exactly match catalog entry E is bound as E by the load.
C13_DetectsEveryEntry ==
    (pc.script.kind = "detect" /\ ev.op = "disc_load")
    => geometry[ev.a] = ev.b

\* the step just taken is a load that failed: the file could not be opened
\* or no detector matched
FailedLoad ==
    ev.op = "disc_load" /\ Only(ev.log, {"open_failed", "no_geometry"}) # << >>

\* C14: after a load on drive d fails, d has no geometry and no open image
\* file, whatever was bound to it before.
C14_FailedLoadUnbinds ==
    FailedLoad => geometry[ev.a] = 0 /\ IsNull(sdf_fp[ev.a])

\* C16: a close of drive d leaves d with no geometry and no open image
\* file, whether the other drive is bound or empty, and leaves the other
\* drive's geometry and file as they were.
C16_CloseUnbinds ==
    [][ ev'.op = "disc_close"
        => /\ geometry'[ev'.a] = 0
           /\ IsNull(sdf_fp'[ev'.a])
           /\ geometry'[1 - ev'.a] = geometry[1 - ev'.a]
           /\ sdf_fp'[1 - ev'.a] = sdf_fp[1 - ev'.a] ]_vars

(***************************************************************************)
(* SpecUnset: a transfer command dispatched to an empty drive, the other   *)
(* drive empty or bound, followed through the dispatch layer's countdown   *)
(* and one transfer period beyond.                                         *)
(***************************************************************************)
UnsetScenarios ==
    { LoadScenario("unset", DfsImage, "rw", d, DfsImage, "rw",
                   d = 1 /\ other, d = 0 /\ other) :
      d \in Drives, other \in BOOLEAN } 

UnsetCommands == {128, 160, 192, 240}

InitUnset ==
    \E s \in UnsetScenarios, c \in UnsetCommands :
        /\ InitWith({BoardFor(c \div 16)}, {"lr"}, {DfsImage})
        /\ pc = After([s EXCEPT !.cmd = c], 0)

NextUnset == SetUp

SpecUnset == InitUnset /\ [][NextUnset]_vars

\* the step dispatches read-sector, write-sector, read-address or format to
\* the selected drive, whose operations are unset
UnsetDispatch ==
    /\ ev'.op = "write_command"
    /\ ev'.b \div 16 \in {8, 10, 12, 15}
    /\ ~Has(wd1770.status, 1)
    /\ drives[curdrive] = "none"

\* C15: a transfer dispatched to a drive whose operation is unset starts the
\* dispatch layer's countdown at 10000 and invokes no callback; each poll
\* tick takes one off the countdown; the not-found callback is invoked once,
\* by the poll that takes the countdown to zero, and by no poll before or
\* after it; no poll invokes the data-ready or the finished callback.
C15_UnsetOperationNotFound ==
    [][ /\ UnsetDispatch
           => /\ disc_notfound' = DISC_NOTFOUND_COUNT
              /\ Only(ev'.log, Completions \cup {"fdc_data"}) = << >>
              /\ state' = "ST_IDLE"
        /\ (ev'.op = "disc_poll" /\ drives[curdrive] = "none")
           => /\ Only(ev'.log, {"fdc_data", "fdc_finishread"}) = << >>
              /\ IF disc_notfound = 1
                 THEN /\ CountEv(ev'.log, "fdc_notfound") = 1
                      /\ Len(Only(ev'.log, Completions)) = 1
                      /\ disc_notfound' = 0
                 ELSE /\ Only(ev'.log, Completions) = << >>
                      /\ disc_notfound' = Max(disc_notfound - 1, 0) ]_vars

\* a Write Sector to empty drive 1, drive 0 bound: the countdown has run
\* out and the callback has fired
C15_Witness ==
    /\ pc.script.kind = "unset"
    /\ pc.script.cmd = 160
    /\ pc.script.drive = 1
    /\ pc.script.b0
    /\ ev.op = "disc_poll"
    /\ ev.pre.disc_notfound = 1
    /\ disc_notfound = 0
    /\ HasEv(ev.log, "fdc_notfound")
    /\ wd1770.status = 16

(***************************************************************************)
(* SpecRead: the read transfers, poll by poll.  A read scenario reads one  *)
(* sector whole and polls on; an address scenario runs Read Address, polls *)
(* on and then tries a Read Sector; a divider scenario polls through the   *)
(* first transfer ticks of a read-sector and of a not-found countdown.     *)
(***************************************************************************)
ReadScenarios ==
    { Scenario("read", DfsImage, "rw", 0, 1, 0, 0),
      Scenario("read", DfsImage, "ro", 1, 9, 39, 0),
      Scenario("read", AdfsImage, "rw", 1, 0, 0, 0),
      Scenario("read", AdfsImage, "rw", 0, 2, 0, 0),
      Scenario("read", AdfsImage, "ro", 0, 15, 79, 1),
      Scenario("read", DfsBase + 17, "rw", 0, 1, 0, 1) }

AddressScenarios ==
    { Scenario("address", g, "rw", g % NUM_DRIVES, 3, t, 0) :
      g \in {DfsImage, AdfsImage}, t \in {0, 7} }

DividerScenarios ==
    { [Scenario("divider", DfsImage, "rw", d, 0, 0, 0) EXCEPT !.fault = f] :
      d \in Drives, f \in {"", "sector"} }

InitRead ==
    \E s \in ReadScenarios \cup AddressScenarios \cup DividerScenarios :
        /\ InitWith({BoardFor(s.g + s.sector)}, {"lr"}, {s.g})
        /\ pc = After(s, 0)

NextRead == SetUp

SpecRead == InitRead /\ [][NextRead]_vars

\* the callbacks a poll makes, in order
Callbacks(log) == Only(log, Completions \cup {"fdc_data"})

\* the step is a poll of a read-sector transfer: on a transfer tick it
\* delivers the byte at the stream position through the data-ready callback,
\* once, and with the last byte calls finished and goes idle; off the tick
\* it calls nothing
ReadSectorPoll ==
    LET fp   == sdf_fp[sdf_drive]
        byte == [e |-> "fdc_data", a |-> ByteAt(disk[fp.img], fp.pos)]
        fin  == [e |-> "fdc_finishread", a |-> 0]
    IN  IF HasEv(ev'.log, "tick")
        THEN /\ Callbacks(ev'.log) = IF count = 1 THEN << byte, fin >>
                                     ELSE << byte >>
             /\ sdf_fp'[sdf_drive].pos = fp.pos + 1
             /\ count' = count - 1
             /\ state' = IF count = 1 THEN "ST_IDLE" ELSE "ST_READSECTOR"
        ELSE /\ Callbacks(ev'.log) = << >>
             /\ UNCHANGED << state, count, sdf_fp >>

\* what the read in progress or completed has delivered is the bytes of the
\* image file from the offset of its sector on, as many as the counter has
\* counted off, sector-size of them once it is complete
ReadSoFar ==
    obs.rd.key # << >>
    => LET geo == Catalog[pc.script.g]
           off == SeekOffset(geo, obs.rd.key[2], obs.rd.key[3], obs.rd.key[4])
       IN  /\ \A i \in 1 .. Len(obs.rd.bytes) :
                  obs.rd.bytes[i] = ByteAt(disk[pc.script.g], off + i - 1)
           /\ Len(obs.rd.bytes) = IF obs.rd.done THEN geo.sector_size
                                  ELSE geo.sector_size - count
           /\ obs.rd.done \/ state = "ST_READSECTOR"

\* C17: an accepted read-sector calls data-ready once per transfer tick,
\* sector-size times in all, with the consecutive bytes of the image file
\* from the computed offset, calls finished once, at the tick of the last
\* byte, and is then idle; polls of the idle backend call nothing.
C17_ReadSectorDelivers ==
    [][ /\ (ev'.op = "disc_poll" /\ state = "ST_READSECTOR") => ReadSectorPoll
        /\ (ev'.op = "disc_poll" /\ state = "ST_IDLE")
           => Callbacks(ev'.log) = << >> /\ state' = "ST_IDLE"
        /\ ReadSoFar' ]_vars

\* sector 1 of a DFS image, which holds the sector count 400 in its bytes 6
\* and 7, read whole and polled on for two transfer periods
C17_Witness ==
    /\ pc.script.kind = "read"
    /\ pc.script.g = DfsImage
    /\ pc.script.sector = 1
    /\ pc.free
    /\ obs.rd.done
    /\ Len(obs.rd.bytes) = 256
    /\ obs.rd.bytes[7] = 1
    /\ obs.rd.bytes[8] = 144
    /\ state = "ST_IDLE"
    /\ ev.op = "disc_poll"

\* C18: the transfer tick after the six bytes of a read-address calls
\* finished and returns the backend to idle, so that later polls call
\* nothing.
C18_ReadAddressEnds ==
    [][ (/\ ev'.op = "disc_poll"
         /\ state = "ST_READ_ADDR6"
         /\ HasEv(ev'.log, "tick"))
        => /\ Callbacks(ev'.log) = << [e |-> "fdc_finishread", a |-> 0] >>
           /\ state' = "ST_IDLE" ]_vars

\* C19: during a read-sector transfer and during a not-found countdown, the
\* poll that advances the backend (delivers a byte, takes one off the
\* countdown) is the sixteenth after the previous such poll, and no other.
C19_OneInSixteen ==
    [][ (/\ ev'.op = "disc_poll"
         /\ state \in {"ST_READSECTOR", "ST_NOTFOUND"}
         /\ obs.since >= 0)
        => ((HasEv(ev'.log, "fdc_data") \/ count' = count - 1)
            <=> obs.since + 1 = 16) ]_vars

(***************************************************************************)
(* Command decoding, under Spec.                                           *)
(***************************************************************************)
\* C20: a command byte written while the controller is not busy whose upper
\* nibble is 0x8 or 0x9 issues a read-sector dispatch, and one whose upper
\* nibble is 0xA or 0xB a write-sector dispatch, each leaving the busy bit
\* set.
C20_NibbleSelectsClass ==
    [][ (ev'.op = "write_command" /\ ~Has(wd1770.status, 1))
        => /\ ev'.b \div 16 \in {8, 9}
              => HasEv(ev'.log, "disc_readsector") /\ Has(wd1770'.status, 1)
           /\ ev'.b \div 16 \in {10, 11}
              => HasEv(ev'.log, "disc_writesector") /\ Has(wd1770'.status, 1)
       ]_vars

(***************************************************************************)
(* The status register after a command, under Spec.                        *)
(***************************************************************************)
\* C21: immediately after a Write Sector command written while the
\* controller is not busy and accepted by the image backend, the status
\* register has the data-request bit (0x02) and the busy bit set, the
\* data-request interrupt line is asserted and the byte-available flag is
\* clear.
C21_WriteSectorArmsRequest ==
    [][ (/\ CommandWrite(10)
         /\ ~Has(wd1770.status, 1)
         /\ state' = "ST_WRITESECTOR")
        => /\ Has(wd1770'.status, 2)
           /\ Has(wd1770'.status, 1)
           /\ Has(nmi', 2)
           /\ wd1770'.written = 0 ]_vars

\* C22: a seek-class command written while the controller is not busy, the
\* completion of one, and a Force Interrupt written while not busy leave
\* the track-0 status bit (0x04) set exactly when the head is at track 0.
C22_TrackZeroBit ==
    [][ (\/ /\ ev'.op = "write_command"
            /\ ~Has(wd1770.status, 1)
            /\ ev'.b \div 16 \in (0 .. 7) \cup {13}
         \/ /\ ev'.op = "fdc_timer"
            /\ HasEv(ev'.log, "fdc_callback")
            /\ wd1770.command \div 16 \in 0 .. 7)
        => (Has(wd1770'.status, 4) <=> wd1770'.curtrack = 0) ]_vars

(***************************************************************************)
(* SpecControl: the control register and what it selects.  The CPU writes  *)
(* a raw byte to the control register of each board after a Restore; it    *)
(* tries a Read Sector of each image detection can bind under each value   *)
(* of the density flag; it writes the last sector of a track of an ADFS L  *)
(* disc, puts a DFS disc in either drive and reads an address from it.     *)
(***************************************************************************)
\* the bytes written to the control register: each bit alone, and all
ControlBytes == {1, 2, 4, 8, 16, 32, 64, 128, 255}

ResetScenarios ==
    { [Plain("resetbit") EXCEPT !.cmd = v] : v \in ControlBytes }

UsableScenarios ==
    { Scenario("usable", g, "rw", g % NUM_DRIVES, 0, 0, 0) : g \in Bindable }

StaleScenarios ==
    { [Scenario("stale", AdfsImage, "rw", 0,
                Catalog[AdfsImage].sectors_per_track - 1, 0, 0)
       EXCEPT !.cmd = d] : d \in Drives }

InitControl ==
    \E s \in ResetScenarios \cup UsableScenarios \cup StaleScenarios :
        /\ InitWith(IF s.kind = "usable" THEN {BoardFor(s.g)} ELSE Boards,
                    {"lr"}, {s.g, DfsImage})
        /\ pc = After(s, 0)

NextControl == SetUp

SpecControl == InitControl /\ [][NextControl]_vars

\* C23: under every board profile some bit of the control register
\* triggers a soft reset, so a control-register write with every bit set
\* leaves the status register and the interrupt lines clear and the
\* spin-down countdown installed.
C23_EveryProfileResets ==
    [][ (ev'.op = "write_ctrl" /\ ev'.b = 255)
        => /\ wd1770'.status = 0
           /\ nmi' = 0
           /\ motorspin' = SPINDOWN_COUNT ]_vars

\* C26: the third byte a read-address delivers is less than the sectors per
\* track of the geometry bound to the drive being read.
C26_AddressSectorValid ==
    [][ (/\ ev'.op = "disc_poll"
         /\ state = "ST_READ_ADDR2"
         /\ HasEv(ev'.log, "fdc_data"))
        => \A i \in DOMAIN ev'.log :
               ev'.log[i].e = "fdc_data"
               => ev'.log[i].a
                      < Catalog[geometry[sdf_drive]].sectors_per_track ]_vars

\* C28: once a Read Sector of the first sector of a bound image has been
\* tried with the density flag clear and with it set, one of the two was
\* accepted and has delivered data.
C28_BoundIsUsable ==
    (pc.script.kind = "usable" /\ pc.free)
        => obs.rd.key # << >> /\ Len(obs.rd.bytes) > 0

(***************************************************************************)
(* The image backend while a transfer is in flight, under Spec.            *)
(***************************************************************************)
\* C24: a read-sector, write-sector, read-address or format that reaches
\* the image backend of a bound drive while the backend is not idle starts
\* the 500-step not-found countdown.
C24_BusyBackendCountsDown ==
    [][ (/\ state # "ST_IDLE"
         /\ \E i \in DOMAIN ev'.log :
                /\ ev'.log[i].e \in TransferCalls
                /\ drives[ev'.log[i].a] = "sdf")
        => state' = "ST_NOTFOUND" /\ count' = 500 ]_vars

\* C25: whenever the image backend is in a transfer state, the drive it
\* transfers on has a bound geometry and an open image file, and no poll
\* has dereferenced a cleared geometry or a closed file.
C25_TransferKeepsImage ==
    /\ ~crashed
    /\ state \notin {"ST_IDLE", "ST_NOTFOUND"}
       => geometry[sdf_drive] # 0 /\ ~IsNull(sdf_fp[sdf_drive])

(***************************************************************************)
(* The motor, under Spec.                                                  *)
(***************************************************************************)
\* C27: whenever the busy bit of the status register is set, the motor-on
\* bit (0x80) is set and the spin-down countdown is not running
\* (motorspin = 0).
C27_BusyKeepsMotor ==
    Has(wd1770.status, 1)
        => /\ Has(wd1770.status, 128)
           /\ motorspin = 0
           /\ motoron = 1

\* a command written by the CPU while the controller was not busy has set
\* the busy bit and started a read on the image backend
C27_Witness ==
    /\ pc.free
    /\ obs.nops > 0
    /\ ev.op = "write_command"
    /\ ~Has(ev.pre.wd.status, 1)
    /\ Has(wd1770.status, 1)
    /\ state = "ST_READSECTOR"

(***************************************************************************)
(* Drive selection during a transfer, under Spec.                          *)
(***************************************************************************)
\* C29: a poll tick made while a transfer accepted on one drive is in
\* flight and the control register selects the other drive still reaches
\* the transfer: the backend's divider advances.
C29_PollReachesTransfer ==
    [][ (/\ ev'.op = "disc_poll"
         /\ state \notin {"ST_IDLE", "ST_NOTFOUND"}
         /\ curdrive # sdf_drive)
        => sdf_time' # sdf_time ]_vars

====
